---- MODULE Spec2Model ----
(***************************************************************************)
(* A model of the "save private window data" browser extension:            *)
(*   - the background script's tab listener that restores web storage      *)
(*     (onTabUpdated),                                                     *)
(*   - the writers of the stored webStorage mapping (saveOriginData,       *)
(*     saveWebStorage, saveAllData, the backup import),                    *)
(*   - the private-window session tracking (windows.onCreated/onRemoved),  *)
(*   - the content script's Cache API capture (getCacheData).              *)
(* Each part has a specification of its own over the shared variables; a   *)
(* part's specification holds the other parts' variables still.            *)
(***************************************************************************)
EXTENDS Integers, Sequences, FiniteSets, TLC

(* ------------------------------ bounds -------------------------------- *)

\* tabs.onUpdated events handled in one run of the restore model
MaxEvents == 2

\* writers of the stored mapping (save requests, imports) in one run of
\* the store model
MaxWriters == 2

(* --------------------------- shared domains --------------------------- *)

Origins == {"https://a.example", "https://b.example"}

Categories == {"localStorage", "indexedDB", "cacheStorage"}

\* A tab that is gone, and a tab whose url gives no origin.
Closed == "closed"
NoUrl == "no-url"

\* The tabs of the restore model. The handlers of different tabs share
\* nothing but the settings and the stored mapping they read.
Tabs == {1}

VARIABLES
    extension_enabled,  \* settings.extension_enabled in chrome.storage.local
    auto_save,          \* settings.auto_save in chrome.storage.local
    save_cats,          \* the categories whose save_* setting is on
    webStorage,         \* chrome.storage.local 'webStorage': origin -> categories
    cookies,            \* chrome.storage.local 'cookies': who saved them last
    last_saved,         \* chrome.storage.local 'last_saved': who set it last
    wr,                 \* per writer of the stored data: its progress
    tabOrigin,          \* per tab: the origin of its page, Closed or NoUrl
    tabReady,           \* per tab: its content script listens for messages
    upd,                \* per tabs.onUpdated event: the handler's progress
    win,                \* per window: whether it is open, and its handlers
    was_private_window_open,  \* the background script's flag
    allowed,            \* chrome.extension.isAllowedIncognitoAccess()
    listening,          \* cookies.onChanged has the listener save_cookies
    pageCaches,         \* the caches of a page, as the Cache API lists them
    sweep,              \* the progress of a getCacheData call
    run,                \* a capture run over the origins: what has answered
    page,               \* a page's own storage, as its content script sees it
    script              \* the content script's messages: what was asked, what it answered

settingVars == <<extension_enabled, auto_save, save_cats>>
storeVars == <<settingVars, webStorage, cookies, last_saved>>
writerVars == <<wr>>
restoreVars == <<tabOrigin, tabReady, upd>>
sessionVars == <<win, was_private_window_open, allowed, listening>>
cacheVars == <<pageCaches, sweep, run>>
pageVars == <<page, script>>
vars == <<storeVars, writerVars, restoreVars, sessionVars, cacheVars, pageVars>>

(* ----------------------- stored data, as JS objects -------------------- *)

\* An origin's entry is an object keyed by category; a category's value is
\* a collection that is empty ({}) or holds content tagged by its writer
\* (tag 0: the content stored before the run).
EntryOf(cats, tag) == [c \in cats |-> {tag}]

(* =========================== RESTORE ON LOAD ========================== *)

\* background.js:263  setTimeout(..., 500)
RetryDelayMs == 500

InFlight == {"settings", "stored", "send1", "timer"}

IdleHandler ==
    [pc |-> "idle", tabId |-> 0, origin |-> NoUrl, ignored |-> FALSE,
     attempts |-> <<>>, during |-> {}, data |-> <<>>]

\* getOriginFromUrl: null when the url cannot be parsed
getOriginFromUrl(url) == IF url \in Origins THEN url ELSE NoUrl

\* chrome.tabs.sendMessage(tabId, {action: 'setStorageData', data: ...}),
\* with the webStorage[origin] the handler has read: the message reaches the page the tab shows when it is delivered; the
\* promise rejects when the tab is gone or no content script listens.
SendSetStorageData(h, delay) ==
    LET t == upd[h].tabId IN
    [snapshotOf |-> upd[h].origin,
     pageOrigin |-> tabOrigin[t],
     ok |-> tabOrigin[t] \in Origins /\ tabReady[t],
     delay |-> delay,
     data |-> upd[h].data]

\* tabs.onUpdated fires: onTabUpdated(tabId, changeInfo, tab) runs up to its
\* first await.
TabUpdated(h, t, incognito, status) ==
    /\ upd[h].pc = "idle"
    /\ \A g \in 1..(h - 1) : upd[g].pc # "idle"
    /\ tabOrigin[t] # Closed
    /\ LET ignored == ~incognito \/ status # "complete"
           same == {g \in DOMAIN upd : /\ upd[g].pc \in InFlight
                                       /\ upd[g].tabId = t
                                       /\ upd[g].origin = getOriginFromUrl(tabOrigin[t])}
       IN upd' = [upd EXCEPT ![h] =
                    [pc |-> IF ignored THEN "done" ELSE "settings",
                     tabId |-> t,
                     origin |-> getOriginFromUrl(tabOrigin[t]),
                     ignored |-> ignored,
                     attempts |-> <<>>,
                     during |-> IF ignored THEN {} ELSE same,
                     data |-> <<>>]]
    /\ UNCHANGED <<tabOrigin, tabReady, storeVars, writerVars, sessionVars, cacheVars, pageVars>>

\* const settings = await chrome.storage.local.get(defaultSettings)
\* and the two returns that follow it.
UpdReadSettings(h) ==
    /\ upd[h].pc = "settings"
    /\ upd' = [upd EXCEPT ![h].pc =
                 IF ~extension_enabled \/ upd[h].origin = NoUrl
                 THEN "done" ELSE "stored"]
    /\ UNCHANGED <<tabOrigin, tabReady, storeVars, writerVars, sessionVars, cacheVars, pageVars>>

\* const stored = await chrome.storage.local.get(['webStorage', ...]);
\* if (webStorage[origin]) the first sendMessage is issued.
UpdReadStored(h) ==
    /\ upd[h].pc = "stored"
    /\ upd' = [upd EXCEPT ![h].pc =
                 IF upd[h].origin \in DOMAIN webStorage THEN "send1" ELSE "done",
                          ![h].data =
                 IF upd[h].origin \in DOMAIN webStorage
                 THEN webStorage[upd[h].origin] ELSE <<>>]
    /\ UNCHANGED <<tabOrigin, tabReady, storeVars, writerVars, sessionVars, cacheVars, pageVars>>

\* (changed code: the catch block arms no timer)
UpdAfterFirstNoRetry(ok) == "done"

\* A rejected first sendMessage arms the retry timer.
UpdAfterFirst(ok) == IF ok THEN "done" ELSE "timer"

\* The first sendMessage settles.
UpdSend1(h) ==
    /\ upd[h].pc = "send1"
    /\ LET m == SendSetStorageData(h, 0) IN
       upd' = [upd EXCEPT ![h].attempts = Append(@, m),
                          ![h].pc = UpdAfterFirst(m.ok)]
    /\ UNCHANGED <<tabOrigin, tabReady, storeVars, writerVars, sessionVars, cacheVars, pageVars>>

\* (changed code: a rejected retry arms the timer again)
UpdAfterRetryRearm(ok) == IF ok THEN "done" ELSE "timer"

\* After the retry's sendMessage the handler is finished either way
\* ("Still failed, give up").
UpdAfterRetry(ok) == "done"

\* The retry timer fires and its sendMessage settles.
UpdRetry(h) ==
    /\ upd[h].pc = "timer"
    /\ LET m == SendSetStorageData(h, RetryDelayMs) IN
       upd' = [upd EXCEPT ![h].attempts = Append(@, m),
                          ![h].pc = UpdAfterRetry(m.ok)]
    /\ UNCHANGED <<tabOrigin, tabReady, storeVars, writerVars, sessionVars, cacheVars, pageVars>>

\* The user navigates the tab (or reloads it): a new document, whose
\* content script is not listening yet.
Navigate(t, o) ==
    /\ tabOrigin[t] # Closed
    /\ tabOrigin' = [tabOrigin EXCEPT ![t] = o]
    /\ tabReady' = [tabReady EXCEPT ![t] = FALSE]
    /\ UNCHANGED <<upd, storeVars, writerVars, sessionVars, cacheVars, pageVars>>

\* The content script of the tab's document registers its listener.
ContentScriptReady(t) ==
    /\ tabOrigin[t] \in Origins
    /\ ~tabReady[t]
    /\ tabReady' = [tabReady EXCEPT ![t] = TRUE]
    /\ UNCHANGED <<tabOrigin, upd, storeVars, writerVars, sessionVars, cacheVars, pageVars>>

CloseTab(t) ==
    /\ tabOrigin[t] # Closed
    /\ tabOrigin' = [tabOrigin EXCEPT ![t] = Closed]
    /\ tabReady' = [tabReady EXCEPT ![t] = FALSE]
    /\ UNCHANGED <<upd, storeVars, writerVars, sessionVars, cacheVars, pageVars>>

\* The restore model at rest.
NoRestores ==
    /\ tabOrigin = [t \in Tabs |-> Closed]
    /\ tabReady = [t \in Tabs |-> FALSE]
    /\ upd = <<>>

\* No window has been created.
NoSession ==
    /\ win = <<>>
    /\ was_private_window_open = FALSE
    /\ allowed = FALSE
    /\ listening = FALSE

\* No page's caches are being read.
NoSweep ==
    /\ pageCaches = <<>>
    /\ sweep = <<>>
    /\ run = <<>>

\* The writers at rest (in the specifications of the other parts).
NoWriters ==
    /\ cookies = 0
    /\ last_saved = 0
    /\ wr = <<>>

\* No content script is asked for a page's storage.
NoPage ==
    /\ page = <<>>
    /\ script = <<>>

RestoreInit ==
    /\ extension_enabled \in BOOLEAN
    /\ auto_save = FALSE
    /\ save_cats = Categories
    /\ NoWriters
    /\ NoSession
    /\ NoSweep
    /\ NoPage
    /\ webStorage \in {[o \in S |-> EntryOf({"localStorage"}, 0)] :
                          S \in {{"https://a.example"}, Origins}}
    /\ tabOrigin = [t \in Tabs |-> "https://a.example"]
    /\ tabReady = [t \in Tabs |-> FALSE]
    /\ upd = [h \in 1..MaxEvents |-> IdleHandler]

HandlerStep(h) ==
    \/ UpdReadSettings(h)
    \/ UpdReadStored(h)
    \/ UpdSend1(h)
    \/ UpdRetry(h)

RestoreNext ==
    \/ \E h \in 1..MaxEvents, t \in Tabs, inc \in BOOLEAN,
          st \in {"loading", "complete"} : TabUpdated(h, t, inc, st)
    \/ \E h \in 1..MaxEvents : UpdReadSettings(h)
    \/ \E h \in 1..MaxEvents : UpdReadStored(h)
    \/ \E h \in 1..MaxEvents : UpdSend1(h)
    \/ \E h \in 1..MaxEvents : UpdRetry(h)
    \/ \E t \in Tabs, o \in Origins \cup {NoUrl} : Navigate(t, o)
    \/ \E t \in Tabs : ContentScriptReady(t)
    \/ \E t \in Tabs : CloseTab(t)

SpecRestore == RestoreInit /\ [][RestoreNext]_vars

(* ------------------------ claims: restore on load --------------------- *)

Handlers == DOMAIN upd

Finished(h) == upd[h].pc = "done"

\* The restore of h was started: the event was a private 'complete', the
\* extension was enabled and the origin had stored data.
Eligible(h) ==
    /\ upd[h].pc # "idle"
    /\ ~upd[h].ignored
    /\ extension_enabled
    /\ upd[h].origin \in DOMAIN webStorage

AllFailedOnTarget(h) ==
    \A i \in 1..Len(upd[h].attempts) :
        /\ ~upd[h].attempts[i].ok
        /\ upd[h].attempts[i].pageOrigin = upd[h].origin

\* C1 (as claimed): an event handled while a restore for the same
\* (tabId, origin) is in flight sends no setStorageData of its own.
C1_RestoreDedup ==
    \A h \in Handlers : upd[h].during # {} => upd[h].attempts = <<>>

\* C2 (as claimed): every setStorageData sent to a tab that still exists is
\* sent while the tab shows the origin the snapshot was stored for.
C2_NoStaleDelivery ==
    \A h \in Handlers : \A i \in 1..Len(upd[h].attempts) :
        upd[h].attempts[i].pageOrigin # Closed
            => upd[h].attempts[i].pageOrigin = upd[h].attempts[i].snapshotOf

\* C8 (as claimed): a restore whose tab stays on the target origin and whose
\* every attempt fails makes 3 attempts, and no restore makes more than 3.
C8_RetryBudgetThree ==
    \A h \in Handlers :
        /\ Len(upd[h].attempts) <= 3
        /\ (Finished(h) /\ Eligible(h) /\ AllFailedOnTarget(h))
               => Len(upd[h].attempts) = 3

\* C8 (amended): such a restore makes 2 attempts, the first at once and the
\* second after the fixed delay of 500 ms, and no restore makes more than 2.
C8_RetryBudgetTwo ==
    \A h \in Handlers :
        /\ Len(upd[h].attempts) <= 2
        /\ (Finished(h) /\ Eligible(h) /\ AllFailedOnTarget(h))
               => /\ Len(upd[h].attempts) = 2
                  /\ upd[h].attempts[1].delay = 0
                  /\ upd[h].attempts[2].delay = RetryDelayMs

C8_Witness ==
    \E h \in Handlers :
        /\ Finished(h) /\ Eligible(h) /\ AllFailedOnTarget(h)
        /\ Len(upd[h].attempts) = 2

\* The handler steps still ahead of a restore.
Rank(pc) ==
    CASE pc = "settings" -> 4
      [] pc = "stored" -> 3
      [] pc = "send1" -> 2
      [] pc = "timer" -> 1
      [] OTHER -> 0

Writers == 1..MaxWriters

\* A JS object with the given keys, the filled ones holding content.
RawEntry(present, filled, tag) ==
    [c \in present |-> IF c \in filled THEN {tag} ELSE {}]

\* What a content script reports for its page, or a backup file holds for
\* an origin: some categories missing (null), some empty, some with content.
RawShapes(tag) ==
    { RawEntry({"localStorage", "indexedDB"}, {"localStorage"}, tag),
      RawEntry(Categories, {"indexedDB", "cacheStorage"}, tag),
      RawEntry({"localStorage", "indexedDB"}, {}, tag) }

\* Mappings from some of the origins to such entries.
RawMappings(tag) ==
    UNION { [S -> RawShapes(tag)] : S \in SUBSET Origins }

\* background.js:356-368: originData holds the categories of data that are
\* present and not empty.
OriginData(data) ==
    [c \in {k \in DOMAIN data : data[k] # {}} |-> data[c]]

\* background.js:105-123, 436-453: storageData holds the categories of the
\* response that are enabled in the settings, present and not empty.
StorageData(response) ==
    [c \in {k \in DOMAIN response : k \in save_cats /\ response[k] # {}}
        |-> response[c]]

\* collectWebStorageFromTabs / the loop of saveWebStorage: the origins whose
\* tab answered with some storageData.
Collect(responses) ==
    [o \in {x \in DOMAIN responses : DOMAIN StorageData(responses[x]) # {}}
        |-> StorageData(responses[o])]

\* { ...a, ...b }
Overlay(a, b) ==
    [o \in DOMAIN a \cup DOMAIN b |-> IF o \in DOMAIN b THEN b[o] ELSE a[o]]

IdleWriter ==
    [pc |-> "idle", kind |-> "none", data |-> <<>>, existing |-> <<>>,
     response |-> "none"]

MergeKinds == {"saveOriginData", "saveWebStorage"}

\* ---- saveOriginData: the auto-save message of a content script ----

\* (changed code: only the settings are looked at)
SodRefusedBySettings(data) ==
    IF ~extension_enabled \/ ~auto_save THEN "disabled" ELSE "none"

\* background.js:326-335: the reason of {success: false, reason}, or "none"
\* when the request is taken up
SodRefused(data) ==
    IF ~extension_enabled \/ ~auto_save THEN "disabled"
    ELSE IF DOMAIN data = {} THEN "invalid data"
    ELSE "none"

\* background.js:323-336: runtime.onMessage receives {action:
\* 'saveOriginData', data}; data maps data.origin (when it has one) to the
\* categories the page reported. Nothing in this part changes the settings,
\* so their read is taken together with the arrival of the message.
SodReceive(w, data) ==
    /\ wr[w].pc = "idle"
    /\ \A v \in 1..(w - 1) : wr[v].pc # "idle"
    /\ LET m == [IdleWriter EXCEPT !.kind = "saveOriginData", !.data = data] IN
       IF SodRefused(data) # "none"
       THEN wr' = [wr EXCEPT ![w] = [m EXCEPT !.pc = "done", !.data = <<>>,
                                        !.response = SodRefused(data)]]
       ELSE wr' = [wr EXCEPT ![w] = [m EXCEPT !.pc = "cookies"]]
    /\ UNCHANGED <<storeVars, restoreVars, sessionVars, cacheVars, pageVars>>

\* background.js:339-349: the cookies are saved, unless the cookie store
\* cannot be read.
SodSaveCookies(w, readable) ==
    /\ wr[w].pc = "cookies"
    /\ cookies' = IF readable THEN w ELSE cookies
    /\ wr' = [wr EXCEPT ![w].pc = "read"]
    /\ UNCHANGED <<settingVars, webStorage, last_saved, restoreVars, sessionVars, cacheVars, pageVars>>

\* const existing = await chrome.storage.local.get('webStorage')
\* (background.js:352 and background.js:131)
ReadExisting(w) ==
    /\ wr[w].pc = "read"
    /\ wr[w].kind \in MergeKinds
    /\ wr' = [wr EXCEPT ![w].pc = "write", ![w].existing = webStorage]
    /\ UNCHANGED <<storeVars, restoreVars, sessionVars, cacheVars, pageVars>>

\* background.js:353-372: webStorage[data.origin] = originData
SodMerged(existing, data) ==
    LET o == CHOOSE x \in DOMAIN data : TRUE IN
    IF DOMAIN OriginData(data[o]) # {}
    THEN Overlay(existing, [x \in {o} |-> OriginData(data[o])])
    ELSE existing

\* background.js:370-382
SodWrite(w) ==
    /\ wr[w].pc = "write"
    /\ wr[w].kind = "saveOriginData"
    /\ LET o == CHOOSE x \in DOMAIN wr[w].data : TRUE IN
       webStorage' = IF DOMAIN OriginData(wr[w].data[o]) # {}
                     THEN SodMerged(wr[w].existing, wr[w].data)
                     ELSE webStorage
    /\ last_saved' = w
    /\ wr' = [wr EXCEPT ![w].pc = "done", ![w].existing = <<>>,
                       ![w].response = "success"]
    /\ UNCHANGED <<settingVars, cookies, restoreVars, sessionVars, cacheVars, pageVars>>

\* ---- saveWebStorage: auto-save after a cookie change ----

\* background.js:84-129, called by save_cookies when auto_save is on: the
\* tabs' answers are collected; nothing more happens when none has data.
SwsCollect(w, responses) ==
    /\ wr[w].pc = "idle"
    /\ \A v \in 1..(w - 1) : wr[v].pc # "idle"
    /\ extension_enabled /\ auto_save
    /\ wr' = [wr EXCEPT ![w] =
                [IdleWriter EXCEPT
                    !.pc = IF DOMAIN Collect(responses) # {} THEN "read" ELSE "done",
                    !.kind = "saveWebStorage",
                    !.data = IF DOMAIN Collect(responses) # {}
                            THEN Collect(responses) ELSE <<>>]]
    /\ UNCHANGED <<storeVars, restoreVars, sessionVars, cacheVars, pageVars>>

\* background.js:132-133
SwsWrite(w) ==
    /\ wr[w].pc = "write"
    /\ wr[w].kind = "saveWebStorage"
    /\ webStorage' = Overlay(wr[w].existing, wr[w].data)
    /\ wr' = [wr EXCEPT ![w].pc = "done", ![w].existing = <<>>,
                       ![w].response = "success"]
    /\ UNCHANGED <<settingVars, cookies, last_saved, restoreVars, sessionVars, cacheVars, pageVars>>

\* ---- saveAllData: Save Now ----

\* background.js:522-533: the cookies are saved and the tabs' answers
\* collected, unless the extension is disabled.
SaveAllCollect(w, responses) ==
    /\ wr[w].pc = "idle"
    /\ \A v \in 1..(w - 1) : wr[v].pc # "idle"
    /\ IF ~extension_enabled
       THEN /\ wr' = [wr EXCEPT ![w] = [IdleWriter EXCEPT !.pc = "done",
                                           !.kind = "saveAllData",
                                           !.response = "disabled"]]
            /\ UNCHANGED cookies
       ELSE /\ wr' = [wr EXCEPT ![w] = [IdleWriter EXCEPT !.pc = "write",
                                           !.kind = "saveAllData",
                                           !.data = Collect(responses)]]
            /\ cookies' = w
    /\ UNCHANGED <<settingVars, webStorage, last_saved, restoreVars, sessionVars, cacheVars, pageVars>>

\* background.js:534-537
SaveAllWrite(w) ==
    /\ wr[w].pc = "write"
    /\ wr[w].kind = "saveAllData"
    /\ webStorage' = wr[w].data
    /\ last_saved' = w
    /\ wr' = [wr EXCEPT ![w].pc = "done", ![w].data = <<>>, ![w].existing = <<>>,
                       ![w].response = "success"]
    /\ UNCHANGED <<settingVars, cookies, restoreVars, sessionVars, cacheVars, pageVars>>

\* ---- processFile: import of a backup file ----

\* A backup file: text that is no JSON, a JSON array, or a JSON object with
\* a version (0: none) and some of the fields cookies and webStorage.
Files(tag) ==
    { [json |-> "none", version |-> 0, fields |-> {}, webStorage |-> <<>>],
      [json |-> "array", version |-> 0, fields |-> {}, webStorage |-> <<>>] }
    \cup { [json |-> "object", version |-> v, fields |-> {}, webStorage |-> <<>>] :
             v \in {0, 2} }
    \cup { [json |-> "object", version |-> v, fields |-> {"cookies", "webStorage"},
             webStorage |-> m] :
             v \in {0, 3}, m \in RawMappings(tag) }

\* restore.js:72-84: whether the parsed payload is accepted
Recognized(file) ==
    \/ file.json = "object" /\ file.version \in {2, 3}
    \/ file.json = "array"
    \/ file.json = "object" /\ file.fields # {}

\* restore.js:69-84: the webStorage taken from the payload
ImportedWebStorage(file) ==
    IF file.json = "object" /\ "webStorage" \in file.fields
    THEN file.webStorage ELSE <<>>

\* (changed code: what the payload holds is stored before it is classified)
ProcessFileStoresFirst(w, file) ==
    /\ wr[w].pc = "idle"
    /\ \A v \in 1..(w - 1) : wr[v].pc # "idle"
    /\ webStorage' = ImportedWebStorage(file)
    /\ cookies' = w
    /\ last_saved' = w
    /\ wr' = [wr EXCEPT ![w] = [IdleWriter EXCEPT !.pc = "done",
                                   !.kind = "import",
                                   !.response = IF file.json # "none" /\ Recognized(file)
                                                THEN "success" ELSE "error"]]
    /\ UNCHANGED <<settingVars, restoreVars, sessionVars, cacheVars, pageVars>>

\* restore.js:51-143 (the file has a name ending in .json and is not empty)
ProcessFile(w, file) ==
    /\ wr[w].pc = "idle"
    /\ \A v \in 1..(w - 1) : wr[v].pc # "idle"
    /\ IF file.json # "none" /\ Recognized(file)
       THEN /\ webStorage' = ImportedWebStorage(file)
            /\ cookies' = w
            /\ last_saved' = w
            /\ wr' = [wr EXCEPT ![w] = [IdleWriter EXCEPT !.pc = "done",
                                           !.kind = "import",
                                           !.response = "success"]]
       ELSE /\ wr' = [wr EXCEPT ![w] = [IdleWriter EXCEPT !.pc = "done",
                                           !.kind = "import",
                                           !.response = "error"]]
            /\ UNCHANGED <<webStorage, cookies, last_saved>>
    /\ UNCHANGED <<settingVars, restoreVars, sessionVars, cacheVars, pageVars>>

StoreInit ==
    /\ extension_enabled \in BOOLEAN
    /\ auto_save \in BOOLEAN
    /\ save_cats \in {Categories, {"indexedDB"}}
    /\ webStorage = [o \in {"https://a.example"} |-> EntryOf({"localStorage"}, 0)]
    /\ cookies = 0
    /\ last_saved = 0
    /\ wr = [w \in Writers |-> IdleWriter]
    /\ NoRestores
    /\ NoSession
    /\ NoSweep
    /\ NoPage

StoreNext ==
    \/ \E w \in Writers : \E o \in Origins, e \in RawShapes(w) :
          SodReceive(w, [x \in {o} |-> e])
    \/ \E w \in Writers : SodReceive(w, <<>>)
    \/ \E w \in Writers, readable \in BOOLEAN : SodSaveCookies(w, readable)
    \/ \E w \in Writers : ReadExisting(w)
    \/ \E w \in Writers : SodWrite(w)
    \/ \E w \in Writers : \E r \in RawMappings(w) : SwsCollect(w, r)
    \/ \E w \in Writers : SwsWrite(w)
    \/ \E w \in Writers : \E r \in RawMappings(w) : SaveAllCollect(w, r)
    \/ \E w \in Writers : SaveAllWrite(w)
    \/ \E w \in Writers : \E f \in Files(w) : ProcessFile(w, f)

SpecStore == StoreInit /\ [][StoreNext]_vars

(* ----------------------- claims: stored data ------------------------- *)

\* The origin o is stored after the step exactly as it was before it.
Preserved(o) ==
    /\ o \in DOMAIN webStorage'
    /\ webStorage'[o] = webStorage[o]

\* The write that ends the merge-write w.
MergeWrite(w) == SodWrite(w) \/ SwsWrite(w)

\* The origins the merge-write w has data for.
WrittenOrigins(w) ==
    IF wr[w].kind = "saveOriginData"
    THEN {o \in DOMAIN wr[w].data : DOMAIN OriginData(wr[w].data[o]) # {}}
    ELSE DOMAIN wr[w].data

\* The categories the merge-write w carries for the origin o.
Carried(w, o) ==
    IF wr[w].kind = "saveOriginData"
    THEN DOMAIN OriginData(wr[w].data[o])
    ELSE DOMAIN wr[w].data[o]

\* What the merge-write w stores for the origin o.
Written(w, o) ==
    IF wr[w].kind = "saveOriginData"
    THEN OriginData(wr[w].data[o]) ELSE wr[w].data[o]

\* The merge-write w has finished with its write.
MergeDone(w) ==
    /\ wr[w].kind \in MergeKinds
    /\ wr[w].pc = "done"
    /\ wr[w].response = "success"

\* C3: when two merge-writes (saveOriginData handlers, saveWebStorage) for
\* different origins have both finished, and nothing else has written, the
\* stored mapping holds the data of both, whatever the order of their reads
\* and writes has been.
C3_NoLostUpdate ==
    \A w, v \in Writers :
        (/\ w # v
         /\ MergeDone(w) /\ MergeDone(v)
         /\ WrittenOrigins(w) \cap WrittenOrigins(v) = {}
         /\ \A u \in Writers \ {w, v} : wr[u].pc = "idle")
        => \A o \in WrittenOrigins(w) :
              /\ o \in DOMAIN webStorage
              /\ webStorage[o] = Written(w, o)

\* C4: a merge-write that nothing has overtaken since its read leaves the
\* stored categories of an origin that it does not carry as they were.
C4_PerCategoryMerge ==
    [][\A w \in Writers :
          (MergeWrite(w) /\ wr[w].existing = webStorage)
          => \A o \in WrittenOrigins(w) \cap DOMAIN webStorage :
               \A c \in DOMAIN webStorage[o] \ Carried(w, o) :
                  /\ o \in DOMAIN webStorage'
                  /\ c \in DOMAIN webStorage'[o]
                  /\ webStorage'[o][c] = webStorage[o][c]]_vars

\* C5: a successful Save Now, auto-save or import leaves every origin that
\* was stored and that the new data does not mention stored as it was.
C5_NeverWholesale ==
    [][\A w \in Writers :
          /\ (MergeWrite(w) /\ wr[w].existing = webStorage)
                => \A o \in DOMAIN webStorage \ DOMAIN wr[w].data : Preserved(o)
          /\ SaveAllWrite(w)
                => \A o \in DOMAIN webStorage \ DOMAIN wr[w].data : Preserved(o)
          /\ \A f \in Files(w) :
                (ProcessFile(w, f) /\ wr'[w].response = "success")
                => \A o \in DOMAIN webStorage \ DOMAIN ImportedWebStorage(f) :
                      Preserved(o)]_vars

\* C6: every stored origin has a category that is not empty.
C6_NoEmptyOrigin ==
    \A o \in DOMAIN webStorage :
        \E c \in DOMAIN webStorage[o] : webStorage[o][c] # {}

(* ======================= PRIVATE-WINDOW SESSIONS ===================== *)

MaxWindows == 2

WindowIds == 1..MaxWindows

NoWindow ==
    [state |-> "none", incognito |-> FALSE, first |-> FALSE,
     created |-> "none", restores |-> 0,
     lsn |-> "none", lsnOpen |-> FALSE,
     removed |-> "none", remOpen |-> FALSE]

\* What chrome.windows.getAll() answers for: a private window is open.
PrivateWindowOpen ==
    \E i \in WindowIds : win[i].state = "open" /\ win[i].incognito

\* The window that began the session that is under way.
CurrentSession ==
    CHOOSE k \in WindowIds :
        /\ win[k].first
        /\ \A j \in WindowIds : win[j].first => j <= k

\* The browser opens a window and fires windows.onCreated; the handler
\* starts with its read of the settings (background.js:282-283). The window
\* begins a private-window session when it is private and no private
\* window is open.
CreateWindow(i, incognito) ==
    /\ win[i].state = "none"
    /\ \A j \in 1..(i - 1) : win[j].state # "none"
    /\ win' = [win EXCEPT ![i] = [NoWindow EXCEPT
                  !.state = "open", !.incognito = incognito,
                  !.first = incognito /\ ~PrivateWindowOpen,
                  !.created = "settings"]]
    /\ UNCHANGED <<was_private_window_open, allowed, listening,
                   storeVars, writerVars, restoreVars, cacheVars, pageVars>>

\* background.js:283-287
CreatedReadSettings(i) ==
    /\ win[i].created = "settings"
    /\ win' = [win EXCEPT ![i].created =
                  IF extension_enabled THEN "allowed" ELSE "done"]
    /\ UNCHANGED <<was_private_window_open, allowed, listening,
                   storeVars, writerVars, restoreVars, cacheVars, pageVars>>

\* background.js:289-296: isAllowedIncognitoAccess() has answered; the flag
\* is tested and set in one turn, restore_cookies() and
\* save_cookies_listener() are called (the latter starts with its read of
\* the settings, background.js:199). The restore is counted for the session
\* under way, if there is one.
CreatedCheck(i) ==
    /\ win[i].created = "allowed"
    /\ IF allowed /\ win[i].incognito /\ ~was_private_window_open
       THEN /\ win' = IF PrivateWindowOpen
                      THEN [win EXCEPT ![i].created = "done",
                                       ![i].lsn = "settings",
                                       ![CurrentSession].restores = @ + 1]
                      ELSE [win EXCEPT ![i].created = "done",
                                       ![i].lsn = "settings"]
            /\ was_private_window_open' = TRUE
       ELSE /\ win' = [win EXCEPT ![i].created = "done"]
            /\ UNCHANGED was_private_window_open
    /\ UNCHANGED <<allowed, listening,
                   storeVars, writerVars, restoreVars, cacheVars, pageVars>>

\* background.js:199-206
ListenerReadSettings(i) ==
    /\ win[i].lsn = "settings"
    /\ IF extension_enabled
       THEN /\ win' = [win EXCEPT ![i].lsn = "getAll"]
            /\ UNCHANGED listening
       ELSE /\ win' = [win EXCEPT ![i].lsn = "done"]
            /\ listening' = FALSE
    /\ UNCHANGED <<was_private_window_open, allowed,
                   storeVars, writerVars, restoreVars, cacheVars, pageVars>>

\* background.js:16-29 in save_cookies_listener: the browser answers
\* windows.getAll()
ListenerGetAll(i) ==
    /\ win[i].lsn = "getAll"
    /\ win' = [win EXCEPT ![i].lsn = "answered",
                          ![i].lsnOpen = PrivateWindowOpen]
    /\ UNCHANGED <<was_private_window_open, allowed, listening,
                   storeVars, writerVars, restoreVars, cacheVars, pageVars>>

\* background.js:208-220
ListenerFinish(i) ==
    /\ win[i].lsn = "answered"
    /\ win' = [win EXCEPT ![i].lsn = "done", ![i].lsnOpen = FALSE]
    /\ listening' = IF win[i].lsnOpen THEN auto_save ELSE listening
    /\ UNCHANGED <<was_private_window_open, allowed,
                   storeVars, writerVars, restoreVars, cacheVars, pageVars>>

\* The window is closed and windows.onRemoved fires; the handler starts
\* with is_private_window_open() (background.js:299-300).
CloseWindow(i) ==
    /\ win[i].state = "open"
    /\ win' = [win EXCEPT ![i].state = "closed", ![i].removed = "getAll"]
    /\ UNCHANGED <<was_private_window_open, allowed, listening,
                   storeVars, writerVars, restoreVars, cacheVars, pageVars>>

\* background.js:16-29 in the onRemoved handler: the browser answers
\* windows.getAll()
RemovedGetAll(i) ==
    /\ win[i].removed = "getAll"
    /\ win' = [win EXCEPT ![i].removed = "answered",
                          ![i].remOpen = PrivateWindowOpen]
    /\ UNCHANGED <<was_private_window_open, allowed, listening,
                   storeVars, writerVars, restoreVars, cacheVars, pageVars>>

\* background.js:300-306
RemovedFinish(i) ==
    /\ win[i].removed = "answered"
    /\ win' = [win EXCEPT ![i].removed = "done", ![i].remOpen = FALSE]
    /\ IF win[i].remOpen
       THEN UNCHANGED <<was_private_window_open, listening>>
       ELSE /\ was_private_window_open' = FALSE
            /\ listening' = FALSE
    /\ UNCHANGED <<allowed, storeVars, writerVars, restoreVars, cacheVars, pageVars>>

SessionInit ==
    /\ extension_enabled \in BOOLEAN
    /\ auto_save \in BOOLEAN
    /\ save_cats = Categories
    /\ webStorage = <<>>
    /\ NoWriters
    /\ NoRestores
    /\ NoSweep
    /\ NoPage
    /\ win = [i \in WindowIds |-> NoWindow]
    /\ was_private_window_open = FALSE
    /\ allowed \in BOOLEAN
    /\ listening = FALSE

SessionNext ==
    \/ \E i \in WindowIds, incognito \in BOOLEAN : CreateWindow(i, incognito)
    \/ \E i \in WindowIds : CreatedReadSettings(i)
    \/ \E i \in WindowIds : CreatedCheck(i)
    \/ \E i \in WindowIds : ListenerReadSettings(i)
    \/ \E i \in WindowIds : ListenerGetAll(i)
    \/ \E i \in WindowIds : ListenerFinish(i)
    \/ \E i \in WindowIds : CloseWindow(i)
    \/ \E i \in WindowIds : RemovedGetAll(i)
    \/ \E i \in WindowIds : RemovedFinish(i)

SpecSession == SessionInit /\ [][SessionNext]_vars

(* ----------------------- claims: sessions ---------------------------- *)

\* C7: a session that begins while the extension is enabled and allowed in
\* private windows, and whose first window is still open, has, once the
\* onCreated handlers of all the windows created so far have run, had the
\* saved cookies restored exactly once.
C7_RestoreOncePerSession ==
    \A i \in WindowIds :
        (/\ win[i].first /\ win[i].state = "open"
         /\ extension_enabled /\ allowed
         /\ \A j \in WindowIds : win[j].created \in {"none", "done"})
        => win[i].restores = 1

(* ======================= CAPTURE OF THE CACHE API ==================== *)

MaxCaches == 3
MaxEntries == 3

MB == 1024 * 1024
MAX_SINGLE_ENTRY_MB == 5

\* The values of message.cacheSizeLimit (part_000:443), in MB.
SizeLimits == {4, 10}

\* The content-length header of a response: none, or one with a number.
NoHeader == <<>>
Header(n) == <<n>>

\* A cached response: what cache.match() gives for its request ("response",
\* "undefined" or "throws"), its content-length header, the length of its
\* body as text (in UTF-16 code units) and in bytes, and whether reading
\* the body as text and as a buffer works or throws.
Entry(match, header, chars, bytes, text, buffer) ==
    [match |-> match, header |-> header, chars |-> chars, bytes |-> bytes,
     text |-> text, buffer |-> buffer, reached |-> FALSE]

EntryShapes ==
    { Entry("response", NoHeader, 2 * MB, 2 * MB, "ok", "ok"),
      Entry("response", Header(5 * MB), 5 * MB, 5 * MB, "ok", "ok"),
      Entry("response", Header(5 * MB + 1), 5 * MB + 1, 5 * MB + 1, "ok", "ok"),
      Entry("response", NoHeader, 6 * MB, 6 * MB, "ok", "ok"),
      Entry("response", NoHeader, 2 * MB, 6 * MB, "ok", "ok"),
      Entry("response", Header(6 * MB), 1 * MB, 1 * MB, "ok", "ok"),
      Entry("response", NoHeader, 0, 3 * MB, "throws", "ok"),
      Entry("response", NoHeader, 0, 6 * MB, "throws", "ok"),
      Entry("response", NoHeader, 0, 1 * MB, "throws", "throws"),
      Entry("undefined", NoHeader, 0, 0, "ok", "ok"),
      Entry("throws", NoHeader, 0, 0, "ok", "ok") }

\* part_000:311-312: contentLength ? parseInt(contentLength) : 0
EstimatedSize(e) == IF e.header = NoHeader THEN 0 ELSE e.header[1]

\* (changed code: the length of a text body is not checked)
TextTooLargeNever(bodySize) == FALSE

\* part_000:315: estimatedSize > MAX_SINGLE_ENTRY_MB * MB
HeaderTooLarge(estimatedSize) == estimatedSize > MAX_SINGLE_ENTRY_MB * MB

\* part_000:334: bodySize > MAX_SINGLE_ENTRY_MB * MB
TextTooLarge(bodySize) == bodySize > MAX_SINGLE_ENTRY_MB * MB

\* part_000:344: buffer.byteLength > MAX_SINGLE_ENTRY_MB * MB
BufferTooLarge(byteLength) == byteLength > MAX_SINGLE_ENTRY_MB * MB

\* part_000:272-283: the length of btoa() of byteLength bytes
Base64Length(byteLength) == 4 * ((byteLength + 2) \div 3)

\* part_000:308-367, one request whose response was found: "skip" (continue)
\* or the length of the serialized body, and whether it is base64.
Serialized(e) ==
    IF HeaderTooLarge(EstimatedSize(e)) THEN [skip |-> TRUE]
    ELSE IF e.text = "ok"
    THEN IF TextTooLarge(e.chars) THEN [skip |-> TRUE]
         ELSE [skip |-> FALSE, bodySize |-> e.chars, base64 |-> FALSE]
    ELSE IF e.buffer # "ok" THEN [skip |-> TRUE]
    ELSE IF BufferTooLarge(e.bytes) THEN [skip |-> TRUE]
    ELSE [skip |-> FALSE, bodySize |-> Base64Length(e.bytes), base64 |-> TRUE]

\* part_000:266
maxBytes == sweep.maxSizeMB * MB

\* (changed code: the check before an entry looks at the finished caches
\* only)
EntryCeilingReachedTotalOnly == sweep.totalSize >= maxBytes

\* (changed code: the check before an entry lets the total reach the
\* ceiling)
EntryCeilingReachedStrict == sweep.totalSize + sweep.cacheSize > maxBytes

\* part_000:291: totalSize >= maxBytes
CacheCeilingReached == sweep.totalSize >= maxBytes

\* part_000:303: totalSize + cacheSize >= maxBytes
EntryCeilingReached == sweep.totalSize + sweep.cacheSize >= maxBytes

\* The number of cached responses the sweep has come to.
EntriesRead ==
    LET RECURSIVE Sum(_)
        Sum(n) == IF n = 0 THEN 0 ELSE Len(pageCaches[n].entries) + Sum(n - 1)
    IN Sum(Len(pageCaches))

\* (changed code: a collected cache is not added to the total)
LeaveCacheTotalKept(cachesNow) ==
    /\ pageCaches' = [cachesNow EXCEPT ![Len(cachesNow)].swept = TRUE]
    /\ sweep' = IF sweep.entries # <<>>
                THEN [sweep EXCEPT
                        !.pc = "caches",
                        !.caches_data = Append(@, [name |-> Len(cachesNow),
                                                   entries |-> sweep.entries,
                                                   size |-> sweep.cacheSize]),
                        !.entries = <<>>, !.cacheSize = 0]
                ELSE [sweep EXCEPT !.pc = "caches",
                                   !.entries = <<>>, !.cacheSize = 0]

\* (changed code: cacheSize is not a variable of the turn of the loop, it
\* keeps its value from one cache to the next)
LeaveCacheSizeKept(cachesNow) ==
    /\ pageCaches' = [cachesNow EXCEPT ![Len(cachesNow)].swept = TRUE]
    /\ sweep' = IF sweep.entries # <<>>
                THEN [sweep EXCEPT
                        !.pc = "caches",
                        !.caches_data = Append(@, [name |-> Len(cachesNow),
                                                   entries |-> sweep.entries,
                                                   size |-> sweep.cacheSize]),
                        !.totalSize = @ + sweep.cacheSize,
                        !.entries = <<>>]
                ELSE [sweep EXCEPT !.pc = "caches", !.entries = <<>>]

\* part_000:371-378, with the latest cache marked as left
LeaveCache(cachesNow) ==
    /\ pageCaches' = [cachesNow EXCEPT ![Len(cachesNow)].swept = TRUE]
    /\ sweep' = IF sweep.entries # <<>>
                THEN [sweep EXCEPT
                        !.pc = "caches",
                        !.caches_data = Append(@, [name |-> Len(cachesNow),
                                                   entries |-> sweep.entries,
                                                   size |-> sweep.cacheSize]),
                        !.totalSize = @ + sweep.cacheSize,
                        !.entries = <<>>, !.cacheSize = 0]
                ELSE [sweep EXCEPT !.pc = "caches",
                                   !.entries = <<>>, !.cacheSize = 0]

\* part_000:286-287, 381-383: the page has no Cache API, or caches.keys()
\* throws
NoCacheNames ==
    /\ sweep.pc = "caches"
    /\ pageCaches = <<>>
    /\ sweep' = [sweep EXCEPT !.pc = "done"]
    /\ UNCHANGED <<pageCaches, run, storeVars, writerVars, restoreVars, sessionVars, pageVars>>

\* part_000:289-299: the next cache name; the sweep stops at the ceiling, and
\* when caches.open() or cache.keys() throws
NextCache(opens) ==
    /\ sweep.pc = "caches"
    /\ Len(pageCaches) < MaxCaches
    /\ pageCaches' = Append(pageCaches, [entries |-> <<>>, swept |-> FALSE])
    /\ sweep' = IF CacheCeilingReached \/ ~opens
                THEN [sweep EXCEPT !.pc = "done"]
                ELSE [sweep EXCEPT !.pc = "requests"]
    /\ UNCHANGED <<run, storeVars, writerVars, restoreVars, sessionVars, pageVars>>

\* part_000:289, 384-385: no cache name is left
NoMoreCaches ==
    /\ sweep.pc = "caches"
    /\ pageCaches # <<>>
    /\ sweep' = [sweep EXCEPT !.pc = "done"]
    /\ UNCHANGED <<pageCaches, run, storeVars, writerVars, restoreVars, sessionVars, pageVars>>

\* part_000:301-368: the next request of the cache
NextRequest(e) ==
    /\ sweep.pc = "requests"
    /\ EntriesRead < MaxEntries
    /\ LET ci == Len(pageCaches)
           ei == Len(pageCaches[ci].entries) + 1
           unreached == [pageCaches EXCEPT ![ci].entries = Append(@, e)]
           reached == [pageCaches EXCEPT
                          ![ci].entries = Append(@, [e EXCEPT !.reached = TRUE])]
       IN
       IF EntryCeilingReached
       THEN LeaveCache(unreached)
       ELSE /\ pageCaches' = reached
            /\ IF e.match = "throws"
               THEN sweep' = [sweep EXCEPT !.pc = "done"]
               ELSE IF e.match = "undefined" \/ Serialized(e).skip
               THEN UNCHANGED sweep
               ELSE sweep' = [sweep EXCEPT
                                !.cacheSize = @ + Serialized(e).bodySize,
                                !.entries = Append(@,
                                    [url |-> <<ci, ei>>,
                                     bodySize |-> Serialized(e).bodySize,
                                     base64 |-> Serialized(e).base64])]
    /\ UNCHANGED <<run, storeVars, writerVars, restoreVars, sessionVars, pageVars>>

\* part_000:301, 371-378: no request of the cache is left
NoMoreRequests ==
    /\ sweep.pc = "requests"
    /\ LeaveCache(pageCaches)
    /\ UNCHANGED <<run, storeVars, writerVars, restoreVars, sessionVars, pageVars>>

CacheInit ==
    /\ extension_enabled = TRUE
    /\ auto_save = FALSE
    /\ save_cats = Categories
    /\ webStorage = <<>>
    /\ NoWriters
    /\ NoRestores
    /\ NoSession
    /\ NoPage
    /\ pageCaches = <<>>
    /\ sweep \in [pc : {"caches"}, maxSizeMB : SizeLimits, totalSize : {0},
                  cacheSize : {0}, entries : {<<>>}, caches_data : {<<>>}]
    /\ run = <<>>

CacheNext ==
    \/ NoCacheNames
    \/ \E opens \in BOOLEAN : NextCache(opens)
    \/ NoMoreCaches
    \/ \E e \in EntryShapes : NextRequest(e)
    \/ NoMoreRequests

SpecCache == CacheInit /\ [][CacheNext]_vars

(* ----------------------- claims: capture of the Cache API ------------ *)

\* The per-entry ceiling in bytes (part_000:267, 315).
EntryCeiling == MAX_SINGLE_ENTRY_MB * MB

\* The requests (cache number, request number) whose entry is in the
\* caches collected so far, and in the cache being read.
Captured ==
    UNION { {c.entries[k].url : k \in 1..Len(c.entries)} :
              c \in {sweep.caches_data[n] : n \in 1..Len(sweep.caches_data)} }

InProgress == {sweep.entries[k].url : k \in 1..Len(sweep.entries)}

\* The requests the sweep has come to.
Requests ==
    {u \in (1..Len(pageCaches)) \X (1..MaxEntries) :
        u[2] <= Len(pageCaches[u[1]].entries)}

EntryAt(u) == pageCaches[u[1]].entries[u[2]]

\* The sweep has left the cache of the request u, and had come to u before
\* the run ceiling stopped it.
Settled(u) == pageCaches[u[1]].swept /\ EntryAt(u).reached

\* One of the three sizes the code looks at is over the ceiling.
MeasuredOver(e) ==
    \/ e.header # NoHeader /\ e.header[1] > EntryCeiling
    \/ e.text = "ok" /\ e.chars > EntryCeiling
    \/ e.text # "ok" /\ e.bytes > EntryCeiling

CacheBytes(caches_data) ==
    LET RECURSIVE Sum(_)
        Sum(n) == IF n = 0 THEN 0 ELSE caches_data[n].size + Sum(n - 1)
    IN Sum(Len(caches_data))

\* background.js:427-449, part_000:441-446: collectWebStorageFromTabs sends
\* getStorageData with the same cacheSizeLimit to one tab per origin; each
\* page answers with the result of its own getCacheData(cacheSizeLimit),
\* which is kept when save_cacheAPI is on and it is not empty. The pages
\* work independently, so their sweeps are taken one after the other.
TabAnswered ==
    /\ sweep.pc = "done"
    /\ run.answered < Cardinality(Origins)
    /\ run' = [answered |-> run.answered + 1,
               cacheBytes |-> run.cacheBytes +
                   IF "cacheStorage" \in save_cats
                   THEN CacheBytes(sweep.caches_data) ELSE 0]
    /\ IF run.answered + 1 < Cardinality(Origins)
       THEN /\ pageCaches' = <<>>
            /\ sweep' = [sweep EXCEPT !.pc = "caches", !.totalSize = 0,
                                      !.caches_data = <<>>]
       ELSE /\ sweep' = [sweep EXCEPT !.pc = "answered"]
            /\ UNCHANGED pageCaches
    /\ UNCHANGED <<storeVars, writerVars, restoreVars, sessionVars, pageVars>>

RunInit ==
    /\ extension_enabled = TRUE
    /\ auto_save = FALSE
    /\ save_cats = Categories
    /\ webStorage = <<>>
    /\ NoWriters
    /\ NoRestores
    /\ NoSession
    /\ NoPage
    /\ pageCaches = <<>>
    /\ sweep \in [pc : {"caches"}, maxSizeMB : SizeLimits, totalSize : {0},
                  cacheSize : {0}, entries : {<<>>}, caches_data : {<<>>}]
    /\ run = [answered |-> 0, cacheBytes |-> 0]

RunNext ==
    \/ CacheNext
    \/ TabAnswered

SpecRun == RunInit /\ [][RunNext]_vars

(* ----------------------- claims: capture run ------------------------- *)

\* C11: in one capture run the cache bytes captured from all the origins
\* together are at most the configured ceiling.
C11_RunCeiling == run.cacheBytes <= maxBytes

(* ----------------------- claims: the run ceiling --------------------- *)

\* The entries captured so far, in the order of their capture.
AllEntries ==
    LET RECURSIVE Cat(_)
        Cat(n) == IF n = 0 THEN <<>>
                  ELSE Cat(n - 1) \o sweep.caches_data[n].entries
    IN Cat(Len(sweep.caches_data)) \o sweep.entries

\* The sum of the body lengths of a sequence of captured entries.
BodySum(es) ==
    LET RECURSIVE Sum(_)
        Sum(n) == IF n = 0 THEN 0 ELSE es[n].bodySize + Sum(n - 1)
    IN Sum(Len(es))

\* C12: the entry captured last was admitted while the total of the
\* entries before it was below the ceiling, so the total of all captured
\* entries is at most the ceiling plus the length of that entry.
C12_OvershootOneEntry ==
    AllEntries # <<>> =>
        /\ BodySum(AllEntries) - AllEntries[Len(AllEntries)].bodySize < maxBytes
        /\ BodySum(AllEntries) <= maxBytes + AllEntries[Len(AllEntries)].bodySize

\* A finished sweep whose captured total is over the ceiling.
C12_Witness ==
    /\ sweep.pc = "done"
    /\ BodySum(AllEntries) > maxBytes

\* The length of the body of an entry as it is captured (part_000:331, 350).
EncodedSize(e) == IF e.text = "ok" THEN e.chars ELSE Base64Length(e.bytes)

\* The entry passes the per-entry checks and can be serialized.
Capturable(e) ==
    /\ e.match = "response"
    /\ ~MeasuredOver(e)
    /\ (e.text = "ok" \/ e.buffer = "ok")

\* The length of the bodies of the first n entries of the cache ci.
PrefixSize(ci, n) ==
    LET RECURSIVE Sum(_)
        Sum(k) == IF k = 0 THEN 0
                  ELSE EncodedSize(pageCaches[ci].entries[k]) + Sum(k - 1)
    IN Sum(n)

\* The length of the bodies of the first n caches.
CachesSize(n) ==
    LET RECURSIVE Sum(_)
        Sum(k) == IF k = 0 THEN 0
                  ELSE PrefixSize(k, Len(pageCaches[k].entries)) + Sum(k - 1)
    IN Sum(n)

\* A finished sweep over two caches or more, all of whose entries can be
\* captured: the caches before the last one are under the run ceiling
\* together, and with the last one they are over it.
LastCacheOver ==
    /\ sweep.pc = "done"
    /\ Len(pageCaches) >= 2
    /\ \A ci \in 1..Len(pageCaches) :
          /\ pageCaches[ci].swept
          /\ pageCaches[ci].entries # <<>>
    /\ \A u \in Requests : Capturable(EntryAt(u))
    /\ CachesSize(Len(pageCaches) - 1) < maxBytes
    /\ CachesSize(Len(pageCaches)) > maxBytes

Truncated == \E u \in Requests : ~EntryAt(u).reached

\* C14: the step at which the run ceiling check fails for an entry puts
\* the entries captured from the current cache into the result, and from
\* then on no entry is captured: the result stays as it is until it is
\* returned.
C14_TruncationEndsCapture ==
    [][/\ (~Truncated /\ Truncated')
          => /\ Captured' = Captured \cup InProgress
             /\ InProgress' = {}
       /\ Truncated
          => /\ Captured' = Captured
             /\ InProgress' = {}
             /\ sweep'.pc \in {"caches", "done"}]_vars

\* A sweep that the ceiling stopped in its first cache, with entries
\* captured, has come to the next cache name and has ended.
C14_Witness ==
    /\ sweep.pc = "done"
    /\ Truncated
    /\ Captured # {}
    /\ Len(pageCaches) >= 2
    /\ ~EntryAt(<<1, Len(pageCaches[1].entries)>>).reached

(* ======================= CAPTURE OF THE CACHE API, content.js ======== *)

\* content.js:287-297: the body recorded for a response: its text; when
\* text() throws, the base64 of its buffer, built with
\* String.fromCharCode(...bytes), which throws when the engine does not take
\* that many arguments; null when that fails too.
V1Bodies(e) ==
    IF e.text = "ok" THEN {"text"}
    ELSE IF e.buffer = "ok" THEN {"base64", "null"}
    ELSE {"null"}

\* content.js:267-268, 317-319: the page has no Cache API, or caches.keys()
\* throws
V1NoCacheNames ==
    /\ sweep.pc = "caches"
    /\ pageCaches = <<>>
    /\ sweep' = [sweep EXCEPT !.pc = "done"]
    /\ UNCHANGED <<pageCaches, run, storeVars, writerVars, restoreVars, sessionVars, pageVars>>

\* content.js:271-274: the next cache name; caches.open() or cache.keys()
\* may throw
V1NextCache(opens) ==
    /\ sweep.pc = "caches"
    /\ Len(pageCaches) < MaxCaches
    /\ pageCaches' = Append(pageCaches, [entries |-> <<>>, swept |-> FALSE])
    /\ sweep' = [sweep EXCEPT !.pc = IF opens THEN "requests" ELSE "done"]
    /\ UNCHANGED <<run, storeVars, writerVars, restoreVars, sessionVars, pageVars>>

\* content.js:271, 321: no cache name is left
V1NoMoreCaches ==
    /\ sweep.pc = "caches"
    /\ pageCaches # <<>>
    /\ sweep' = [sweep EXCEPT !.pc = "done"]
    /\ UNCHANGED <<pageCaches, run, storeVars, writerVars, restoreVars, sessionVars, pageVars>>

\* content.js:276-309: the next request of the cache
V1NextRequest(e, body) ==
    /\ sweep.pc = "requests"
    /\ EntriesRead < MaxEntries
    /\ body \in V1Bodies(e)
    /\ LET ci == Len(pageCaches)
           ei == Len(pageCaches[ci].entries) + 1
       IN
       /\ pageCaches' = [pageCaches EXCEPT
                            ![ci].entries = Append(@, [e EXCEPT !.reached = TRUE])]
       /\ IF e.match = "throws"
          THEN sweep' = [sweep EXCEPT !.pc = "done"]
          ELSE IF e.match = "undefined"
          THEN UNCHANGED sweep
          ELSE sweep' = [sweep EXCEPT
                           !.entries = Append(@, [url |-> <<ci, ei>>,
                                                  body |-> body])]
    /\ UNCHANGED <<run, storeVars, writerVars, restoreVars, sessionVars, pageVars>>

\* content.js:276, 312-315: no request of the cache is left; the cache is
\* recorded
V1NoMoreRequests ==
    /\ sweep.pc = "requests"
    /\ pageCaches' = [pageCaches EXCEPT ![Len(pageCaches)].swept = TRUE]
    /\ sweep' = [sweep EXCEPT
                    !.pc = "caches",
                    !.caches_data = Append(@, [name |-> Len(pageCaches),
                                               entries |-> sweep.entries]),
                    !.entries = <<>>]
    /\ UNCHANGED <<run, storeVars, writerVars, restoreVars, sessionVars, pageVars>>

V1CacheInit ==
    /\ extension_enabled = TRUE
    /\ auto_save = FALSE
    /\ save_cats = Categories
    /\ webStorage = <<>>
    /\ NoWriters
    /\ NoRestores
    /\ NoSession
    /\ NoPage
    /\ pageCaches = <<>>
    /\ sweep = [pc |-> "caches", entries |-> <<>>, caches_data |-> <<>>]
    /\ run = <<>>

V1CacheNext ==
    \/ V1NoCacheNames
    \/ \E opens \in BOOLEAN : V1NextCache(opens)
    \/ V1NoMoreCaches
    \/ \E e \in EntryShapes, body \in {"text", "base64", "null"} :
          V1NextRequest(e, body)
    \/ V1NoMoreRequests

SpecCacheV1 == V1CacheInit /\ [][V1CacheNext]_vars

(* ----------------------- claims: empty caches ------------------------ *)

\* C15: every cache in a captured result has at least one entry.
C15_NoEmptyCache ==
    \A n \in 1..Len(sweep.caches_data) : sweep.caches_data[n].entries # <<>>

(* ================= A PAGE'S STORAGE, READ AND WRITTEN ================= *)
(* The content script of a page answers getStorageData, setStorageData    *)
(* and clearStorageData (part_000:431-495).                               *)

MaxItems == 2     \* key/value pairs in a snapshot's localStorage
MaxStores == 2    \* object stores in a snapshot's database
MaxBytes == 2     \* bytes in a cached response's body
MaxRequests == 2  \* requests a page's content script answers

Keys == {"a", "b", "__proto__"}
Values == {"x", "y"}

\* A JS object, and a Storage, is its own properties (items) in the order
\* they were added: a sequence of <<key, value>>.
KeysOf(obj) == {obj[i][1] : i \in DOMAIN obj}
Mapping(obj) == {obj[i] : i \in DOMAIN obj}

\* (changed code: a write never replaces, it adds another item)
PutAgain(obj, key, value) == Append(obj, <<key, value>>)

\* An own property (an item) is overwritten in place or added at the end.
Put(obj, key, value) ==
    IF key \in KeysOf(obj)
    THEN [i \in DOMAIN obj |-> IF obj[i][1] = key THEN <<key, value>> ELSE obj[i]]
    ELSE Append(obj, <<key, value>>)

\* part_000:9,13  const data = {}; data[key] = <a string>: on an object
\* that inherits from Object.prototype the key "__proto__" names the
\* inherited accessor, whose setter ignores a string; no property is made.
Assign(data, key, value) ==
    IF key = "__proto__" THEN data ELSE Put(data, key, value)

\* part_000:8-19 getLocalStorage; failAt is the index at which key() or
\* getItem() throws (0: none does): the catch is outside the loop.
RECURSIVE ReadItems(_, _, _, _)
ReadItems(storage, i, failAt, data) ==
    IF i > Len(storage) \/ i = failAt THEN data
    ELSE ReadItems(storage, i + 1, failAt,
                   Assign(data, storage[i][1], storage[i][2]))

getLocalStorage(storage, failAt) == ReadItems(storage, 1, failAt, <<>>)

\* localStorage.setItem(key, value) throws QuotaExceededError when the item
\* does not fit; the quota is counted here in items.
SetItemThrows(storage, key, quota) ==
    key \notin KeysOf(storage) /\ Len(storage) >= quota

\* part_000:22-30 setLocalStorage; the catch is outside the loop.
RECURSIVE WriteEntries(_, _, _, _)
WriteEntries(storage, data, i, quota) ==
    IF i > Len(data) THEN storage
    ELSE IF SetItemThrows(storage, data[i][1], quota) THEN storage
    ELSE WriteEntries(Put(storage, data[i][1], data[i][2]), data, i + 1, quota)

setLocalStorage(storage, data, quota) == WriteEntries(storage, data, 1, quota)

\* part_000:33-39 clearLocalStorage
clearLocalStorage(storage) == <<>>

\* The objects with up to n properties, their keys distinct:
\* the localStorage field of a snapshot.
RECURSIVE Objects(_)
Objects(n) ==
    IF n = 0 THEN {<<>>}
    ELSE LET smaller == Objects(n - 1)
         IN smaller \cup
            UNION {{Append(obj, <<k, v>>) : k \in Keys \ KeysOf(obj), v \in Values} :
                     obj \in {o \in smaller : Len(o) = n - 1}}
(* ------------------------------ IndexedDB ------------------------------ *)

\* keyPath: null, or a string
NoKeyPath == <<>>
KeyPath(path) == <<path>>

Index(name, keyPath, unique, multiEntry) ==
    [name |-> name, keyPath |-> keyPath, unique |-> unique,
     multiEntry |-> multiEntry]

\* one object store of a snapshot (part_000:111-117, 140)
StoreData(name, keyPath, autoIncrement, indexes, data) ==
    [name |-> name, keyPath |-> keyPath, autoIncrement |-> autoIncrement,
     indexes |-> indexes, data |-> data]

\* The stores a snapshot is made of: in-line keys with a unique index,
\* out-of-line generated keys, another store of the first one's name,
\* in-line generated keys with a multiEntry index, and options no store
\* can have (a generator with an empty keyPath).
StoreShapes ==
    { StoreData("s1", KeyPath("id"), FALSE,
                <<Index("i", KeyPath("f"), TRUE, FALSE)>>,
                <<[key |-> 1, value |-> [id |-> 1, f |-> 7]]>>),
      StoreData("s2", NoKeyPath, TRUE, <<>>,
                <<[key |-> 5, value |-> [f |-> 7]]>>),
      StoreData("s1", NoKeyPath, FALSE, <<>>, <<>>),
      StoreData("s3", KeyPath("id"), TRUE,
                <<Index("i", KeyPath("f"), FALSE, TRUE)>>, <<>>),
      StoreData("s4", KeyPath(""), TRUE, <<>>, <<>>) }

RECURSIVE SeqsUpTo(_, _)
SeqsUpTo(S, n) ==
    IF n = 0 THEN {<<>>}
    ELSE LET smaller == SeqsUpTo(S, n - 1)
         IN smaller \cup {Append(q, x) : q \in {p \in smaller : Len(p) = n - 1}, x \in S}

\* The elements of a set in the order the engine lists them.
RECURSIVE Listed(_)
Listed(S) ==
    IF S = {} THEN <<>>
    ELSE LET x == CHOOSE y \in S : TRUE IN <<x>> \o Listed(S \ {x})

\* (changed code: the generator flag is not copied into the options)
StoreOptionsKeyPathOnly(storeData) ==
    IF storeData.keyPath # NoKeyPath
    THEN [keyPath |-> storeData.keyPath] ELSE [none |-> TRUE]

\* part_000:187-191 storeOptions
StoreOptions(storeData) ==
    IF storeData.keyPath # NoKeyPath
    THEN [keyPath |-> storeData.keyPath, autoIncrement |-> storeData.autoIncrement]
    ELSE [autoIncrement |-> storeData.autoIncrement]

\* db.createObjectStore(name, options): a missing option is its default.
\* It throws for a name the database has, and for a key generator on an
\* empty keyPath.
CreateObjectStoreThrows(names, name, options) ==
    \/ name \in names
    \/ /\ "autoIncrement" \in DOMAIN options /\ options.autoIncrement
       /\ "keyPath" \in DOMAIN options /\ options.keyPath = KeyPath("")

createObjectStore(name, options) ==
    [name |-> name,
     keyPath |-> IF "keyPath" \in DOMAIN options THEN options.keyPath ELSE NoKeyPath,
     autoIncrement |-> IF "autoIncrement" \in DOMAIN options
                       THEN options.autoIncrement ELSE FALSE,
     indexes |-> {},
     records |-> {}]

\* store.createIndex(name, keyPath, {unique, multiEntry}) throws for a name
\* the store has.
CreateIndexThrows(indexes) ==
    \E i, j \in DOMAIN indexes : i # j /\ indexes[i].name = indexes[j].name

\* part_000:196-202
CreateIndexes(store, indexes) ==
    [store EXCEPT !.indexes =
        {Index(indexes[i].name, indexes[i].keyPath, indexes[i].unique,
               indexes[i].multiEntry) : i \in DOMAIN indexes}]

\* part_000:182-203 request.onupgradeneeded: the stores made so far, or
\* "aborted" when a call threw (the upgrade is rolled back and the open
\* request fails).
RECURSIVE Upgrade(_, _, _)
Upgrade(objectStores, i, made) ==
    IF i > Len(objectStores) THEN [aborted |-> FALSE, stores |-> made]
    ELSE LET storeData == objectStores[i]
             options == StoreOptions(storeData)
         IN IF \/ CreateObjectStoreThrows({s.name : s \in made}, storeData.name, options)
               \/ CreateIndexThrows(storeData.indexes)
            THEN [aborted |-> TRUE, stores |-> {}]
            ELSE Upgrade(objectStores, i + 1,
                         made \cup {CreateIndexes(createObjectStore(storeData.name, options),
                                                  storeData.indexes)})

\* part_000:231-247 populateObjectStore: with out-of-line keys the record
\* is put under its captured key, with in-line keys the store takes the key
\* from the value at the keyPath.
Populated(store, storeData) ==
    [store EXCEPT !.records =
        {[key |-> IF storeData.keyPath = NoKeyPath
                  THEN storeData.data[i].key
                  ELSE storeData.data[i].value.id,
          value |-> storeData.data[i].value] : i \in DOMAIN storeData.data}]

\* part_000:205-220 request.onsuccess: every store of the snapshot that has
\* records is populated.
PopulateAll(stores, objectStores) ==
    {IF \E i \in DOMAIN objectStores :
           objectStores[i].name = s.name /\ Len(objectStores[i].data) > 0
     THEN Populated(s, objectStores[CHOOSE i \in DOMAIN objectStores :
                                       objectStores[i].name = s.name])
     ELSE s : s \in stores}

\* part_000:173-228 restoreDatabase: the database of that name is deleted,
\* then opened with the recorded version.
restoreDatabase(databases, dbData) ==
    LET others == {db \in databases : db.name # dbData.name}
        upgrade == Upgrade(dbData.objectStores, 1, {})
    IN IF upgrade.aborted THEN others
       ELSE others \cup
            {[name |-> dbData.name, version |-> dbData.version,
              stores |-> PopulateAll(upgrade.stores, dbData.objectStores)]}

\* part_000:162-170 setIndexedDBData
RECURSIVE setIndexedDBData(_, _)
setIndexedDBData(databases, snapshot) ==
    IF snapshot = <<>> THEN databases
    ELSE setIndexedDBData(restoreDatabase(databases, Head(snapshot)), Tail(snapshot))

\* part_000:250-261 clearIndexedDB
clearIndexedDB(databases, hasDatabases) ==
    IF hasDatabases THEN {} ELSE databases

\* part_000:105-159 extractObjectStoreData
extractObjectStoreData(store) ==
    StoreData(store.name, store.keyPath, store.autoIncrement,
              Listed(store.indexes),
              Listed(store.records))

\* part_000:65-102 extractDatabaseData
extractDatabaseData(db) ==
    [name |-> db.name, version |-> db.version,
     objectStores |-> LET stores == Listed(db.stores)
                      IN [i \in DOMAIN stores |-> extractObjectStoreData(stores[i])]]

\* part_000:42-61 getIndexedDBData: indexedDB.databases is missing in some
\* browsers, and then nothing is captured.
getIndexedDBData(databases, hasDatabases) ==
    IF hasDatabases
    THEN LET dbList == Listed(databases)
         IN [i \in DOMAIN dbList |-> extractDatabaseData(dbList[i])]
    ELSE <<>>
(* ------------------------------ Cache API ------------------------------ *)

ByteValues == {65, 255}
Bodies == SeqsUpTo(ByteValues, MaxBytes)

\* response.text(): the bytes decoded as UTF-8, U+FFFD for a byte that is
\* no UTF-8 (here: every byte above 127).
Utf8Decode(bytes) ==
    [i \in DOMAIN bytes |-> IF bytes[i] < 128 THEN bytes[i] ELSE 65533]

\* new Response(<a string>): the body is the string encoded as UTF-8.
RECURSIVE Utf8Encode(_)
Utf8Encode(chars) ==
    IF chars = <<>> THEN <<>>
    ELSE LET c == Head(chars)
             first == IF c < 128 THEN <<c>>
                      ELSE IF c < 2048 THEN <<192 + (c \div 64), 128 + (c % 64)>>
                      ELSE <<224 + (c \div 4096), 128 + ((c \div 64) % 64),
                             128 + (c % 64)>>
         IN first \o Utf8Encode(Tail(chars))

\* The character of btoa's alphabet for a 6-bit value.
Base64Char(v) ==
    IF v < 26 THEN 65 + v
    ELSE IF v < 52 THEN 97 + (v - 26)
    ELSE IF v < 62 THEN 48 + (v - 52)
    ELSE IF v = 62 THEN 43 ELSE 47

\* btoa(binary): three characters become four, the rest is padded with '='.
\* The j-th character of the result comes from the j-th six bits.
btoa(binary) ==
    LET n == Len(binary)
        byte(k) == IF k <= n THEN binary[k] ELSE 0
        char(j) ==
            LET g == (j - 1) \div 4
                p == (j - 1) % 4
                b1 == byte(3 * g + 1)
                b2 == byte(3 * g + 2)
                b3 == byte(3 * g + 3)
            IN IF p = 0 THEN Base64Char(b1 \div 4)
               ELSE IF p = 1 THEN Base64Char((b1 % 4) * 16 + (b2 \div 16))
               ELSE IF p = 2
               THEN IF 3 * g + 2 > n THEN 61
                    ELSE Base64Char((b2 % 16) * 4 + (b3 \div 64))
               ELSE IF 3 * g + 3 > n THEN 61 ELSE Base64Char(b3 % 64)
    IN [j \in 1..(4 * ((n + 2) \div 3)) |-> char(j)]

\* part_000:272-283: String.fromCharCode makes one character of each byte.
arrayBufferToBase64(buffer) == btoa(buffer)

\* part_000:326-353: the body as text, or base64 when text() threw.
SerializedBody(response) ==
    IF response.text = "ok" THEN Utf8Decode(response.bytes)
    ELSE arrayBufferToBase64(response.bytes)

\* part_000:358-367: what an entry records of a response.
SerializedEntry(e) ==
    [url |-> e.url,
     response |-> [status |-> e.status, body |-> SerializedBody(e)]]

\* part_000:289-386 getCacheData for bodies far below the size limits:
\* a cache is in the result when it has an entry.
RECURSIVE CapturedCaches(_)
CapturedCaches(stored) ==
    IF stored = <<>> THEN <<>>
    ELSE LET cache == Head(stored)
             entries == [i \in DOMAIN cache.entries |-> SerializedEntry(cache.entries[i])]
         IN (IF Len(entries) > 0
             THEN <<[name |-> cache.name, entries |-> entries]>> ELSE <<>>)
            \o CapturedCaches(Tail(stored))

\* 'caches' in window: only in a secure context
getCacheData(stored, secure) == IF secure THEN CapturedCaches(stored) ELSE <<>>

\* new Response(body, {status}) throws for a status outside 200..599 and for
\* a body with a null-body status.
ResponseThrows(status) ==
    status < 200 \/ status > 599 \/ status \in {204, 205, 304}

\* cache.put(url, response) rejects when the response cannot be stored
\* (QuotaExceededError, a failing disk); putFails holds the urls for which
\* it does.
CachePutRejects(url, putFails) == url \in putFails

\* cache.put(url, response): replaces the entry of that url. The restored
\* response holds the bytes of the string and decodes as text.
CachePut(entries, url, status, body) ==
    LET e == [url |-> url, status |-> status, bytes |-> Utf8Encode(body),
              text |-> "ok"]
    IN IF \E i \in DOMAIN entries : entries[i].url = url
       THEN [i \in DOMAIN entries |-> IF entries[i].url = url THEN e ELSE entries[i]]
       ELSE Append(entries, e)

\* (changed code: no try around one entry, the first failure ends the loop)
RECURSIVE RestoredEntriesUntilFailure(_, _, _)
RestoredEntriesUntilFailure(entries, recorded, putFails) ==
    IF recorded = <<>> THEN entries
    ELSE LET entry == Head(recorded)
         IN IF \/ ResponseThrows(entry.response.status)
               \/ CachePutRejects(entry.url, putFails)
            THEN entries
            ELSE RestoredEntriesUntilFailure(
                   CachePut(entries, entry.url, entry.response.status,
                            entry.response.body),
                   Tail(recorded), putFails)

\* part_000:396-408: the entries of one cache of the snapshot, each in its
\* own try.
RECURSIVE RestoredEntries(_, _, _)
RestoredEntries(entries, recorded, putFails) ==
    IF recorded = <<>> THEN entries
    ELSE LET entry == Head(recorded)
         IN RestoredEntries(
              IF \/ ResponseThrows(entry.response.status)
                 \/ CachePutRejects(entry.url, putFails)
              THEN entries
              ELSE CachePut(entries, entry.url, entry.response.status,
                            entry.response.body),
              Tail(recorded), putFails)

\* caches.open(name) makes the cache when the page has none of that name.
Opened(stored, name) ==
    IF \E i \in DOMAIN stored : stored[i].name = name THEN stored
    ELSE Append(stored, [name |-> name, entries |-> <<>>])

\* part_000:390-414 setCacheData
RECURSIVE RestoredCaches(_, _, _)
RestoredCaches(stored, caches_data, putFails) ==
    IF caches_data = <<>> THEN stored
    ELSE LET cacheData == Head(caches_data)
             opened == Opened(stored, cacheData.name)
         IN RestoredCaches(
              [i \in DOMAIN opened |->
                 IF opened[i].name = cacheData.name
                 THEN [opened[i] EXCEPT
                         !.entries = RestoredEntries(@, cacheData.entries, putFails)]
                 ELSE opened[i]],
              Tail(caches_data), putFails)

setCacheData(stored, caches_data, secure, putFails) ==
    IF secure THEN RestoredCaches(stored, caches_data, putFails) ELSE stored

\* part_000:417-428 clearCacheStorage
clearCacheStorage(stored, secure) == IF secure THEN <<>> ELSE stored
(* ------------------------- the message handler ------------------------- *)

Page(ls, quota, idb, hasDatabases, stored, secure, putFails) ==
    [ls |-> ls, quota |-> quota, idb |-> idb, hasDatabases |-> hasDatabases,
     caches |-> stored, secure |-> secure, putFails |-> putFails]

Answered(kind, clearFirst, failAt, response, after) ==
    [kind |-> kind, clearFirst |-> clearFirst, failAt |-> failAt,
     response |-> response, page |-> after]

\* part_000:453-482 setStorageData
SetStorageData(clearFirst) ==
    /\ script # <<>>
    /\ Len(script.log) < MaxRequests
    /\ LET data == script.snapshot
           includeCache == script.includeCache
           ls1 == IF clearFirst THEN clearLocalStorage(page.ls) ELSE page.ls
           idb1 == IF clearFirst THEN clearIndexedDB(page.idb, page.hasDatabases)
                   ELSE page.idb
           caches1 == IF clearFirst /\ includeCache
                      THEN clearCacheStorage(page.caches, page.secure)
                      ELSE page.caches
           ls2 == IF "localStorage" \in DOMAIN data
                  THEN setLocalStorage(ls1, data.localStorage, page.quota) ELSE ls1
           idb2 == IF "indexedDB" \in DOMAIN data
                   THEN setIndexedDBData(idb1, data.indexedDB) ELSE idb1
           caches2 == IF includeCache /\ "cacheStorage" \in DOMAIN data
                      THEN setCacheData(caches1, data.cacheStorage, page.secure,
                                        page.putFails)
                      ELSE caches1
           after == [page EXCEPT !.ls = ls2, !.idb = idb2, !.caches = caches2]
       IN /\ page' = after
          /\ script' = [script EXCEPT !.log =
                          Append(@, Answered("set", clearFirst, 0,
                                             [success |-> TRUE], after))]
    /\ UNCHANGED <<storeVars, writerVars, restoreVars, sessionVars, cacheVars>>

\* part_000:432-451 getStorageData
GetStorageData(failAt) ==
    /\ script # <<>>
    /\ Len(script.log) < MaxRequests
    /\ failAt \in 0..Len(page.ls)
    /\ LET ls == getLocalStorage(page.ls, failAt)
           idb == getIndexedDBData(page.idb, page.hasDatabases)
           data == IF script.includeCache
                   THEN [localStorage |-> ls, indexedDB |-> idb,
                         cacheStorage |-> getCacheData(page.caches, page.secure)]
                   ELSE [localStorage |-> ls, indexedDB |-> idb]
       IN script' = [script EXCEPT !.log =
                       Append(@, Answered("get", FALSE, failAt, data, page))]
    /\ UNCHANGED <<page, storeVars, writerVars, restoreVars, sessionVars, cacheVars>>

\* part_000:484-495 clearStorageData
ClearStorageData ==
    /\ script # <<>>
    /\ Len(script.log) < MaxRequests
    /\ LET after == [page EXCEPT
                       !.ls = clearLocalStorage(page.ls),
                       !.idb = clearIndexedDB(page.idb, page.hasDatabases),
                       !.caches = IF script.includeCache
                                  THEN clearCacheStorage(page.caches, page.secure)
                                  ELSE page.caches]
       IN /\ page' = after
          /\ script' = [script EXCEPT !.log =
                          Append(@, Answered("clear", FALSE, 0,
                                             [success |-> TRUE], after))]
    /\ UNCHANGED <<storeVars, writerVars, restoreVars, sessionVars, cacheVars>>

Script(snapshot, includeCache, source, first) ==
    [snapshot |-> snapshot, includeCache |-> includeCache, source |-> source,
     first |-> first, log |-> <<>>]

\* What a page holds before the first request.
StoredItems ==
    {<<>>, <<<<"a", "y">>>>, <<<<"b", "y">>, <<"a", "y">>>>}

StoredDatabases ==
    {{}, {[name |-> "db", version |-> 3,
           stores |-> {createObjectStore("s1", [autoIncrement |-> TRUE])}]}}

CachedResponse(url, status, bytes, text) ==
    [url |-> url, status |-> status, bytes |-> bytes, text |-> text]

StoredCaches ==
    {<<>>, <<[name |-> "c",
              entries |-> <<CachedResponse("/u", 200, <<65>>, "ok")>>]>>}

\* The caches a snapshot was captured from: a body that decodes as text or
\* one whose text() throws; a 204 response has no body; two caches, the
\* first of them with two entries.
SourceCaches ==
    {<<[name |-> "c", entries |-> <<CachedResponse("/u", 200, bytes, text)>>]>> :
        bytes \in Bodies, text \in {"ok", "throws"}}
    \cup {<<[name |-> "c", entries |-> <<CachedResponse("/u", 204, <<>>, "ok")>>]>>}
    \cup {<<[name |-> "c", entries |-> <<first, CachedResponse("/v", 200, <<65>>, "ok")>>],
             [name |-> "d", entries |-> <<CachedResponse("/w", 200, <<65>>, "ok")>>]>> :
              first \in {CachedResponse("/u", 200, <<65>>, "ok"),
                         CachedResponse("/u", 204, <<>>, "ok")}}

\* One page and the snapshot it is sent: a snapshot holds the categories
\* that were saved for the origin.
PageInit ==
    /\ extension_enabled = TRUE
    /\ auto_save = FALSE
    /\ save_cats = Categories
    /\ webStorage = <<>>
    /\ NoWriters
    /\ NoRestores
    /\ NoSession
    /\ NoSweep
    /\ \/ \E data \in Objects(MaxItems), ls \in StoredItems,
             quota \in {MaxItems, 2 * MaxItems + 1} :
            /\ page = Page(ls, quota, {}, TRUE, <<>>, TRUE, {})
            /\ script = Script([localStorage |-> data], FALSE, <<>>, page)
       \/ \E version \in {1, 2}, objectStores \in SeqsUpTo(StoreShapes, MaxStores),
             idb \in StoredDatabases, hasDatabases \in BOOLEAN :
            /\ page = Page(<<>>, MaxItems, idb, hasDatabases, <<>>, TRUE, {})
            /\ script = Script([indexedDB |-> <<[name |-> "db", version |-> version,
                                                objectStores |-> objectStores]>>],
                               FALSE, <<>>, page)
       \/ \E source \in SourceCaches, stored \in StoredCaches,
             includeCache \in BOOLEAN, secure \in BOOLEAN,
             putFails \in {{}, {"/u"}} :
            /\ page = Page(<<>>, MaxItems, {}, TRUE, stored, secure, putFails)
            /\ script = Script([cacheStorage |-> CapturedCaches(source)],
                               includeCache, source, page)

PageNext ==
    \/ \E clearFirst \in BOOLEAN : SetStorageData(clearFirst)
    \/ \E failAt \in 0..MaxItems + 2 : GetStorageData(failAt)
    \/ ClearStorageData

SpecPage == PageInit /\ [][PageNext]_vars

(* ---------------------- claims: a page's storage ----------------------- *)

\* The page held nothing before the first request.
FreshPage ==
    script.first.ls = <<>> /\ script.first.idb = {} /\ script.first.caches = <<>>

\* C16: for every snapshot with a non-empty localStorage mapping, restoring
\* it into a fresh page and then capturing the page yields a localStorage
\* mapping with the same keys and the same values.
C16_LocalStorageRoundTrip ==
    ( /\ "localStorage" \in DOMAIN script.snapshot
      /\ script.snapshot.localStorage # <<>>
      /\ FreshPage
      /\ Len(script.log) >= 2
      /\ script.log[1].kind = "set"
      /\ script.log[2].kind = "get" /\ script.log[2].failAt = 0 )
    => Mapping(script.log[2].response.localStorage)
         = Mapping(script.snapshot.localStorage)

\* C17: two setStorageData in succession with the same snapshot and
\* clearFirst = false leave the localStorage the first one left: the same
\* items, none of them twice.
C17_RestoreIdempotent ==
    \A i \in 1..(Len(script.log) - 1) :
       ( /\ script.log[i].kind = "set" /\ ~script.log[i].clearFirst
         /\ script.log[i + 1].kind = "set" /\ ~script.log[i + 1].clearFirst )
       => script.log[i + 1].page.ls = script.log[i].page.ls

\* The snapshot was applied twice, without clearing, to a page that held a
\* key of the snapshot with another value and a key the snapshot lacks.
C17_Witness ==
    /\ "localStorage" \in DOMAIN script.snapshot
    /\ Len(script.log) = 2
    /\ script.log[1].kind = "set" /\ ~script.log[1].clearFirst
    /\ script.log[2].kind = "set" /\ ~script.log[2].clearFirst
    /\ \E i \in DOMAIN script.first.ls, j \in DOMAIN script.snapshot.localStorage :
          /\ script.first.ls[i][1] = script.snapshot.localStorage[j][1]
          /\ script.first.ls[i][2] # script.snapshot.localStorage[j][2]
    /\ KeysOf(script.first.ls) \ KeysOf(script.snapshot.localStorage) # {}
    /\ Mapping(script.snapshot.localStorage) \subseteq Mapping(page.ls)

\* What a store's schema is: its name, keyPath, autoIncrement flag and the
\* definitions of its indexes.
Schema(storeData) ==
    [name |-> storeData.name, keyPath |-> storeData.keyPath,
     autoIncrement |-> storeData.autoIncrement,
     indexes |-> {storeData.indexes[i] : i \in DOMAIN storeData.indexes}]

Schemas(objectStores) == {Schema(objectStores[i]) : i \in DOMAIN objectStores}

\* C18: a database that was restored from the snapshot and is captured
\* again (the page can list its databases) is captured once, with the
\* recorded version and with the object stores of the snapshot: the same
\* names, each with the same keyPath, autoIncrement flag and indexes.
C18_SchemaFidelity ==
    \A i \in 1..(Len(script.log) - 1) :
       ( /\ "indexedDB" \in DOMAIN script.snapshot
         /\ script.log[i].kind = "set"
         /\ script.log[i + 1].kind = "get"
         /\ page.hasDatabases )
       => \A n \in DOMAIN script.snapshot.indexedDB :
             LET dbData == script.snapshot.indexedDB[n]
                 captured == script.log[i + 1].response.indexedDB
                 found == {k \in DOMAIN captured : captured[k].name = dbData.name}
             IN (\E db \in script.log[i].page.idb : db.name = dbData.name)
                => /\ Cardinality(found) = 1
                   /\ \A k \in found :
                         /\ captured[k].version = dbData.version
                         /\ Schemas(captured[k].objectStores)
                              = Schemas(dbData.objectStores)
                         /\ Len(captured[k].objectStores)
                              = Len(dbData.objectStores)

\* A database with a keyPath store and an out-of-line autoIncrement store
\* was restored over a database of the same name and captured again.
C18_Witness ==
    /\ "indexedDB" \in DOMAIN script.snapshot
    /\ Len(script.log) = 2
    /\ script.log[1].kind = "set"
    /\ script.log[2].kind = "get"
    /\ page.hasDatabases
    /\ script.first.idb # {}
    /\ LET objectStores == script.snapshot.indexedDB[1].objectStores
       IN /\ Len(objectStores) = 2
          /\ \E a, b \in DOMAIN objectStores :
                /\ objectStores[a].keyPath # NoKeyPath
                /\ ~objectStores[a].autoIncrement
                /\ objectStores[a].indexes # <<>>
                /\ objectStores[b].keyPath = NoKeyPath
                /\ objectStores[b].autoIncrement
    /\ Len(script.log[2].response.indexedDB) = 1
    /\ script.log[2].response.indexedDB[1].version = script.snapshot.indexedDB[1].version
    /\ Len(script.log[2].response.indexedDB[1].objectStores) = 2

\* C19: an entry that was captured through the base64 fallback (text()
\* threw) is restored with a body equal to the bytes it was captured from.
C19_Base64RoundTrip ==
    \A i \in DOMAIN script.log :
       ( /\ "cacheStorage" \in DOMAIN script.snapshot
         /\ script.log[i].kind = "set"
         /\ script.includeCache /\ page.secure )
       => \A c \in DOMAIN script.source : \A n \in DOMAIN script.source[c].entries :
             LET e == script.source[c].entries[n]
                 restored == script.log[i].page.caches
             IN e.text = "throws"
                => \E rc \in DOMAIN restored :
                      /\ restored[rc].name = script.source[c].name
                      /\ \E rn \in DOMAIN restored[rc].entries :
                            /\ restored[rc].entries[rn].url = e.url
                            /\ restored[rc].entries[rn].bytes = e.bytes
(* ========================= IMPORTING A BACKUP ========================= *)

\* popup.js:535-541: the webStorage taken from the payload
PopupWebStorage(file) ==
    IF file.json = "object" /\ file.version = 2 /\ "webStorage" \in file.fields
    THEN file.webStorage ELSE <<>>

\* popup.js:521-583 file_input 'change' (the file is not empty): JSON.parse
\* throws out of the handler; otherwise the cookies and webStorage found
\* are stored, whatever the payload is. (The tabs of an open private
\* window are then cleared and written: no stored data changes.)
PopupFileInput(w, file) ==
    /\ wr[w].pc = "idle"
    /\ \A v \in 1..(w - 1) : wr[v].pc # "idle"
    /\ IF file.json # "none"
       THEN /\ webStorage' = PopupWebStorage(file)
            /\ cookies' = w
            /\ wr' = [wr EXCEPT ![w] = [IdleWriter EXCEPT !.pc = "done",
                                           !.kind = "popup",
                                           !.response = "success"]]
            /\ UNCHANGED last_saved
       ELSE /\ wr' = [wr EXCEPT ![w] = [IdleWriter EXCEPT !.pc = "done",
                                           !.kind = "popup",
                                           !.response = "error"]]
            /\ UNCHANGED <<webStorage, cookies, last_saved>>
    /\ UNCHANGED <<settingVars, restoreVars, sessionVars, cacheVars, pageVars>>

ImportInit ==
    /\ extension_enabled = TRUE
    /\ auto_save = FALSE
    /\ save_cats = Categories
    /\ webStorage \in {<<>>, [o \in {"https://a.example"} |-> EntryOf({"localStorage"}, 0)]}
    /\ cookies = 0
    /\ last_saved = 0
    /\ wr = [w \in Writers |-> IdleWriter]
    /\ NoRestores
    /\ NoSession
    /\ NoSweep
    /\ NoPage

ImportNext ==
    \/ \E w \in Writers : \E f \in Files(w) : ProcessFile(w, f)
    \/ \E w \in Writers : \E f \in Files(w) : PopupFileInput(w, f)

SpecImport == ImportInit /\ [][ImportNext]_vars

(* ----------------------- claims: format detection ---------------------- *)

\* restore.js:72-84, popup.js:535-541: a payload of no recognizable shape
Unrecognizable(file) ==
    file.json = "object" /\ file.version \notin {2, 3} /\ file.fields = {}

\* How the import of file by writer w ended.
Classified(w, file) ==
    /\ file.json = "array"
         => /\ wr'[w].response = "success"
            /\ cookies' = w
            /\ webStorage' = <<>>
    /\ (file.json = "object" /\ file.version \in {2, 3})
         => /\ wr'[w].response = "success"
            /\ cookies' = w
            /\ webStorage' = IF "webStorage" \in file.fields
                             THEN file.webStorage ELSE <<>>
    /\ Unrecognizable(file)
         => wr'[w].response = "error"

\* C20: an import classifies a bare array as cookies only with an empty
\* webStorage, takes the cookies and webStorage of an object of version 2
\* or 3, and ends in the error for a payload of no recognizable shape.
C20_FormatDetection ==
    [][\A w \in Writers : \A f \in Files(w) :
          (ProcessFile(w, f) \/ PopupFileInput(w, f)) => Classified(w, f)]_vars

(* ------------------------ claims: no partial import -------------------- *)

\* C21: an import that ends in the malformed-input error (the file does not
\* parse, or has no known shape) leaves the stored cookies, webStorage and
\* last_saved as they were before it started.
C21_NoPartialImport ==
    [][\A w \in Writers :
          (wr[w].pc = "idle" /\ wr'[w].pc = "done" /\ wr'[w].response = "error")
          => UNCHANGED <<webStorage, cookies, last_saved>>]_vars

\* An import ended in the error after an earlier import had stored data.
C21_Witness ==
    \E w, v \in Writers :
       /\ wr[v].pc = "done" /\ wr[v].response = "success"
       /\ wr[w].pc = "done" /\ wr[w].response = "error" /\ wr[w].kind = "import"
       /\ v < w
       /\ webStorage # <<>>
       /\ cookies = v

(* ============== THE MESSAGE HANDLER, FROM AWAIT TO AWAIT =============== *)
(* The handlers of part_000:431-495 as the page runs them: a step ends at  *)
(* an await and the next one starts when the awaited promise settles.     *)

DbNames == {"db1", "db2"}

\* A database of a snapshot: per object store, whether it has records.
DbData(name, storeHasData) == [name |-> name, objectStores |-> storeHasData]

DbShapes(name) ==
    {DbData(name, [j \in 1..MaxStores |-> TRUE]),
     DbData(name, [j \in 1..MaxStores |-> j # 1])}

\* message.data.indexedDB: absent, a value that cannot be iterated, or an
\* array of databases.
IndexedDBShapes ==
    {[shape |-> "absent", databases |-> <<>>],
     [shape |-> "number", databases |-> <<>>],
     [shape |-> "array", databases |-> <<>>]}
    \cup {[shape |-> "array", databases |-> <<a>>] : a \in DbShapes("db1")}
    \cup {[shape |-> "array", databases |-> <<a, b>>] :
             a \in DbShapes("db1"), b \in DbShapes("db2")}

\* message.data: missing (<<>>), or one object.
DataShapes ==
    {<<>>} \cup
    {<<[localStorage |-> TRUE, indexedDB |-> idb, cacheStorage |-> cache]>> :
        idb \in IndexedDBShapes, cache \in BOOLEAN}

Messages ==
    {[action |-> a, clearFirst |-> FALSE, includeCache |-> c, data |-> <<>>] :
        a \in {"getStorageData", "clearStorageData"}, c \in BOOLEAN}
    \cup {[action |-> "setStorageData", clearFirst |-> f, includeCache |-> c,
           data |-> d] : f \in BOOLEAN, c \in BOOLEAN, d \in DataShapes}

AtRest == {"idle", "responded", "threw"}

\* sendResponse(...) is called.
Respond(s, response) ==
    [s EXCEPT !.pc = "responded",
              !.responses[Len(s.responses)] = Append(@, response)]

\* The promise of the handler's async function is rejected: nothing
\* handles it, and sendResponse is not called.
Throw(s) == [s EXCEPT !.pc = "threw"]

\* part_000:474-479: after the databases
AfterIndexedDB(s) ==
    IF s.message.includeCache /\ s.message.data[1].cacheStorage
    THEN [s EXCEPT !.pc = "setCache"]
    ELSE Respond(s, [success |-> TRUE])

\* part_000:205-220: the next object store that has records is populated;
\* after the last one the connection is closed and the Promise resolved,
\* and setIndexedDBData goes on to the next database (part_000:163).
RECURSIVE NextStore(_, _)
NextStore(s, j) ==
    LET databases == s.message.data[1].indexedDB.databases
        objectStores == databases[s.db].objectStores
    IN IF j <= Len(objectStores)
       THEN IF objectStores[j]
            THEN [s EXCEPT !.pc = "populating", !.store = j]
            ELSE NextStore(s, j + 1)
       ELSE IF s.db < Len(databases)
            THEN [s EXCEPT !.pc = "deleting", !.db = @ + 1, !.store = 0]
            ELSE AfterIndexedDB([s EXCEPT !.store = 0])

\* part_000:163-169: the rejection of restoreDatabase is caught
NextDatabase(s) ==
    LET databases == s.message.data[1].indexedDB.databases
    IN IF s.db < Len(databases)
       THEN [s EXCEPT !.pc = "deleting", !.db = @ + 1, !.store = 0]
       ELSE AfterIndexedDB([s EXCEPT !.store = 0])

\* part_000:466-480: from if (data.localStorage) on. Reading a property of
\* a missing data throws; so does the for..of in setIndexedDBData over a
\* value that cannot be iterated (part_000:163).
Restore(s) ==
    IF s.message.data = <<>> THEN Throw(s)
    ELSE LET indexedDB == s.message.data[1].indexedDB
         IN IF indexedDB.shape = "absent" THEN AfterIndexedDB(s)
            ELSE IF indexedDB.shape = "number" THEN Throw(s)
            ELSE IF indexedDB.databases = <<>> THEN AfterIndexedDB(s)
            ELSE [s EXCEPT !.pc = "deleting", !.db = 1, !.store = 0]

\* Whether setLocalStorage was reached (part_000:466-468).
WritesLocalStorage(message) ==
    message.action = "setStorageData" /\ message.data # <<>>
    /\ message.data[1].localStorage

\* chrome.runtime.onMessage fires: the listener starts the async function,
\* which runs to its first await, and returns true.
Receive(message) ==
    /\ script.pc \in AtRest
    /\ Len(script.responses) < MaxRequests
    /\ LET s == [script EXCEPT !.message = message,
                               !.responses = Append(@, <<>>),
                               !.returned = Append(@, TRUE),
                               !.db = 0, !.store = 0,
                               !.failed = {}, !.skipped = {}]
       IN /\ script' =
               IF message.action = "getStorageData"
               THEN [s EXCEPT !.pc = "getIndexedDB"]
               ELSE IF message.action = "clearStorageData" \/ message.clearFirst
               THEN [s EXCEPT !.pc = "clearIndexedDB"]
               ELSE Restore(s)
          /\ page' = [page EXCEPT
                        !.restored = {},
                        !.written = IF message.action = "setStorageData"
                                       /\ ~message.clearFirst
                                       /\ WritesLocalStorage(message)
                                    THEN {"localStorage"} ELSE {}]
    /\ UNCHANGED <<storeVars, writerVars, restoreVars, sessionVars, cacheVars>>

\* await getIndexedDBData() settles (part_000:438): its failures are caught
\* inside it.
GotIndexedDB ==
    /\ script.pc = "getIndexedDB"
    /\ script' = IF script.message.includeCache
                 THEN [script EXCEPT !.pc = "getCache"]
                 ELSE Respond(script, [origin |-> TRUE])
    /\ UNCHANGED <<page, storeVars, writerVars, restoreVars, sessionVars, cacheVars>>

\* await getCacheData(cacheSizeLimit) settles (part_000:444-447)
GotCache ==
    /\ script.pc = "getCache"
    /\ script' = Respond(script, [origin |-> TRUE])
    /\ UNCHANGED <<page, storeVars, writerVars, restoreVars, sessionVars, cacheVars>>

\* await clearIndexedDB() settles (part_000:460, 487): deleteDatabase is
\* called for every database and not waited for.
ClearedIndexedDB ==
    /\ script.pc = "clearIndexedDB"
    /\ LET message == script.message
       IN IF message.includeCache
          THEN /\ script' = [script EXCEPT !.pc = "clearCache"]
               /\ UNCHANGED page
          ELSE IF message.action = "clearStorageData"
          THEN /\ script' = Respond(script, [success |-> TRUE])
               /\ UNCHANGED page
          ELSE /\ script' = Restore(script)
               /\ page' = [page EXCEPT !.written =
                             IF WritesLocalStorage(message)
                             THEN {"localStorage"} ELSE {}]
    /\ UNCHANGED <<storeVars, writerVars, restoreVars, sessionVars, cacheVars>>

\* await clearCacheStorage() settles (part_000:462, 489)
ClearedCache ==
    /\ script.pc = "clearCache"
    /\ LET message == script.message
       IN IF message.action = "clearStorageData"
          THEN /\ script' = Respond(script, [success |-> TRUE])
               /\ UNCHANGED page
          ELSE /\ script' = Restore(script)
               /\ page' = [page EXCEPT !.written =
                             IF WritesLocalStorage(message)
                             THEN {"localStorage"} ELSE {}]
    /\ UNCHANGED <<storeVars, writerVars, restoreVars, sessionVars, cacheVars>>

\* The database being restored.
Restoring == script.message.data[1].indexedDB.databases[script.db]

\* part_000:176-178, 226: deleteRequest settles. While a connection to the
\* database is open the request is blocked: neither handler is called.
DeleteSettled(succeeded) ==
    /\ script.pc = "deleting"
    /\ Restoring.name \notin page.held
    /\ script' = IF succeeded THEN [script EXCEPT !.pc = "opening"]
                 ELSE NextDatabase([script EXCEPT !.skipped = @ \cup {Restoring.name}])
    /\ UNCHANGED <<page, storeVars, writerVars, restoreVars, sessionVars, cacheVars>>

\* The page's own script closes its connection to a database.
PageClosesConnection(name) ==
    /\ script.pc \notin AtRest
    /\ name \in page.held
    /\ page' = [page EXCEPT !.held = @ \ {name}]
    /\ UNCHANGED <<script, storeVars, writerVars, restoreVars, sessionVars, cacheVars>>

\* part_000:180-223: the open request settles, after the upgrade.
OpenSettled(succeeded) ==
    /\ script.pc = "opening"
    /\ script' = IF succeeded THEN NextStore(script, 1)
                 ELSE NextDatabase([script EXCEPT !.skipped = @ \cup {Restoring.name}])
    /\ UNCHANGED <<page, storeVars, writerVars, restoreVars, sessionVars, cacheVars>>

\* part_000:231-247 populateObjectStore: the transaction completes, or a
\* request of it fails (transaction.onerror), or it is aborted with no
\* request having failed (only an abort event, which nothing listens to:
\* the Promise stays pending).
PopulateSettled(outcome) ==
    /\ script.pc = "populating"
    /\ LET failed == script.failed \cup {<<Restoring.name, script.store>>}
       IN script' =
            IF outcome = "abort"
            THEN [script EXCEPT !.pc = "pending", !.failed = failed]
            ELSE IF outcome = "error"
            THEN NextStore([script EXCEPT !.failed = failed], script.store + 1)
            ELSE NextStore(script, script.store + 1)
    /\ page' = IF outcome = "complete"
               THEN [page EXCEPT !.restored = @ \cup {<<Restoring.name, script.store>>}]
               ELSE page
    /\ UNCHANGED <<storeVars, writerVars, restoreVars, sessionVars, cacheVars>>

\* await setCacheData(data.cacheStorage) settles (part_000:475-477)
CacheRestored ==
    /\ script.pc = "setCache"
    /\ script' = Respond(script, [success |-> TRUE])
    /\ page' = [page EXCEPT !.written = @ \cup {"cacheStorage"}]
    /\ UNCHANGED <<storeVars, writerVars, restoreVars, sessionVars, cacheVars>>

RequestInit ==
    /\ extension_enabled = TRUE
    /\ auto_save = FALSE
    /\ save_cats = Categories
    /\ webStorage = <<>>
    /\ NoWriters
    /\ NoRestores
    /\ NoSession
    /\ NoSweep
    /\ \E held \in SUBSET DbNames :
          page = [held |-> held, restored |-> {}, written |-> {}]
    /\ script = [pc |-> "idle", message |-> <<>>, responses |-> <<>>,
                 returned |-> <<>>, db |-> 0, store |-> 0,
                 failed |-> {}, skipped |-> {}]

\* What the handler does once the promise it awaits has settled.
HandlerContinues ==
    \/ GotIndexedDB
    \/ GotCache
    \/ ClearedIndexedDB
    \/ ClearedCache
    \/ \E succeeded \in BOOLEAN : DeleteSettled(succeeded)
    \/ \E succeeded \in BOOLEAN : OpenSettled(succeeded)
    \/ \E outcome \in {"complete", "error", "abort"} : PopulateSettled(outcome)
    \/ CacheRestored

RequestNext ==
    \/ \E message \in Messages : Receive(message)
    \/ HandlerContinues
    \/ \E name \in DbNames : PageClosesConnection(name)

\* Every promise of the storage engine that can settle does settle; the
\* page need not ever close its connection.
SpecRequest == RequestInit /\ [][RequestNext]_vars /\ WF_vars(HandlerContinues)

(* ------------------- claims: the handler's response -------------------- *)

\* The responses sent to the k-th request so far.
ResponsesTo(k) ==
    IF k <= Len(script.responses) THEN script.responses[k] ELSE <<>>

\* C22: for every getStorageData, setStorageData and clearStorageData
\* request the listener returns true and the handler eventually calls
\* sendResponse, once, also when a step of the storage engine fails or is
\* blocked.
C22_OneResponse ==
    \A k \in 1..MaxRequests :
       /\ [](k <= Len(script.responses)
               => script.returned[k] /\ Len(ResponsesTo(k)) <= 1)
       /\ [](k <= Len(script.responses) => <>(Len(ResponsesTo(k)) = 1))

\* C23: when an error is thrown inside the handler of a request, the
\* request is answered with a response that has success: false.
C23_ErrorResponse ==
    script.pc = "threw"
    => ResponsesTo(Len(script.responses)) = <<[success |-> FALSE]>>

\* The databases of the snapshot being restored.
Databases ==
    IF script.message # <<>> /\ script.message.data # <<>>
    THEN script.message.data[1].indexedDB.databases ELSE <<>>

\* The stores with records of the databases that were deleted and opened,
\* whose own population did not fail.
ToPopulate ==
    UNION {{<<Databases[d].name, j>> :
               j \in {i \in 1..MaxStores : Databases[d].objectStores[i]}} :
             d \in {i \in DOMAIN Databases : Databases[i].name \notin script.skipped}}
    \ script.failed

\* C28: after the population of one object store has failed the restore
\* goes on: the request is answered, and by then every other store of the
\* database and of the other databases of the snapshot is populated.
C28_PopulateFailureGoesOn ==
    [](script.failed # {} /\ page.held = {}
         => <>(script.pc = "responded" /\ ToPopulate \subseteq page.restored))

(* ============================= AUTO-SAVE ============================== *)
(* The auto-save of one page (part_000:508-625). Time is in milliseconds  *)
(* and passes in steps of one second; a timer fires at its time. The      *)
(* clock starts late enough for Date.now() - 0 to be a long time.         *)

MaxTime == 8      \* seconds a page is watched
MaxStarts == 3    \* captures a page starts

\* part_000:515
SAVE_DEBOUNCE_MS == 5000

NoTimer == <<>>
Timer(at) == <<at>>

\* (changed code: saveCurrentStorage does not look at autoSaveEnabled)
SaveCurrentStorageUnguarded(s) ==
    [s EXCEPT !.running = @ + 1, !.starts = Append(@, page.now)]

\* part_000:517-545 saveCurrentStorage is called: with auto-save on a
\* capture starts (settings are read, then the storage, then saveOriginData
\* is sent); with auto-save off it returns at once.
SaveCurrentStorageCalled(s) ==
    IF ~s.autoSaveEnabled THEN [s EXCEPT !.returned = @ + 1]
    ELSE [s EXCEPT !.running = @ + 1, !.starts = Append(@, page.now)]

\* part_000:548-567 debouncedSave: the pending timer is cleared and a new
\* one is set.
debouncedSave(s) ==
    LET timeSinceLastSave == page.now - s.lastSaveTime
    IN IF timeSinceLastSave >= SAVE_DEBOUNCE_MS
       THEN [s EXCEPT !.saveDebounceTimer = Timer(page.now + 1000)]
       ELSE [s EXCEPT !.saveDebounceTimer =
                        Timer(page.now + (SAVE_DEBOUNCE_MS - timeSinceLastSave))]

TimersDue ==
    \/ script.saveDebounceTimer # NoTimer /\ script.saveDebounceTimer[1] <= page.now
    \/ \E t \in script.loadTimers : t <= page.now

\* One second passes.
Tick ==
    /\ page.now < page.until
    /\ ~TimersDue
    /\ page' = [page EXCEPT !.now = @ + 1000]
    /\ UNCHANGED <<script, storeVars, writerVars, restoreVars, sessionVars, cacheVars>>

\* part_000:570-574 onVisibilityChange, when it is registered
VisibilityChange(visibilityState) ==
    /\ script' = IF /\ "visibilitychange" \in script.listeners
                    /\ visibilityState = "hidden" /\ script.autoSaveEnabled
                 THEN debouncedSave(script) ELSE script
    /\ UNCHANGED <<page, storeVars, writerVars, restoreVars, sessionVars, cacheVars>>

\* part_000:577-582 onBeforeUnload, the listener of 'beforeunload' and of
\* 'pagehide'
BeforeUnload ==
    /\ Len(script.starts) < MaxStarts
    /\ script' = IF {"beforeunload", "pagehide"} \subseteq script.listeners
                    /\ script.autoSaveEnabled
                 THEN SaveCurrentStorageCalled(script) ELSE script
    /\ UNCHANGED <<page, storeVars, writerVars, restoreVars, sessionVars, cacheVars>>

\* The page has loaded; part_000:585-590 onPageLoad, when it is registered
PageLoad ==
    /\ page.readyState = "loading"
    /\ page' = [page EXCEPT !.readyState = "complete"]
    /\ script' = IF "load" \in script.listeners /\ script.autoSaveEnabled
                 THEN [script EXCEPT !.loadTimers = @ \cup {page.now + 3000}]
                 ELSE script
    /\ UNCHANGED <<storeVars, writerVars, restoreVars, sessionVars, cacheVars>>

\* setTimeout(debouncedSave, 3000) fires (part_000:588, 602)
LoadTimerFires(t) ==
    /\ t \in script.loadTimers
    /\ t <= page.now
    /\ script' = debouncedSave([script EXCEPT !.loadTimers = @ \ {t}])
    /\ UNCHANGED <<page, storeVars, writerVars, restoreVars, sessionVars, cacheVars>>

\* setTimeout(saveCurrentStorage, ...) fires (part_000:559, 563)
DebounceTimerFires ==
    /\ script.saveDebounceTimer # NoTimer
    /\ script.saveDebounceTimer[1] <= page.now
    /\ Len(script.starts) < MaxStarts
    /\ script.returned < MaxStarts
    /\ script' = SaveCurrentStorageCalled([script EXCEPT !.saveDebounceTimer = NoTimer])
    /\ UNCHANGED <<page, storeVars, writerVars, restoreVars, sessionVars, cacheVars>>

\* part_000:520-544: a running capture ends: saveOriginData was sent and
\* lastSaveTime is set, or an await threw and the catch logs it.
CaptureEnds(sent) ==
    /\ script.running > 0
    /\ script' = [script EXCEPT !.running = @ - 1,
                                !.lastSaveTime = IF sent THEN page.now ELSE @]
    /\ UNCHANGED <<page, storeVars, writerVars, restoreVars, sessionVars, cacheVars>>

\* (changed code: no early return when auto-save is already on)
startAutoSaveListenersAgain(s) ==
    [s EXCEPT !.autoSaveEnabled = TRUE,
              !.listeners = @ \cup {"visibilitychange", "beforeunload", "pagehide"}
                              \cup (IF page.readyState = "complete" THEN {} ELSE {"load"}),
              !.loadTimers = IF page.readyState = "complete"
                             THEN @ \cup {page.now + 3000} ELSE @]

\* part_000:592-606 startAutoSaveListeners
startAutoSaveListeners(s) ==
    IF s.autoSaveEnabled THEN s
    ELSE [s EXCEPT !.autoSaveEnabled = TRUE,
                   !.listeners = @ \cup {"visibilitychange", "beforeunload", "pagehide"}
                                   \cup (IF page.readyState = "complete" THEN {} ELSE {"load"}),
                   !.loadTimers = IF page.readyState = "complete"
                                  THEN @ \cup {page.now + 3000} ELSE @]

\* part_000:608-614 stopAutoSaveListeners: no timer is cleared
stopAutoSaveListeners(s) ==
    [s EXCEPT !.autoSaveEnabled = FALSE, !.listeners = {}]

\* part_000:626-635: auto_save was changed (to on) and the listener of
\* storage.onChanged has read the settings.
SettingsChanged(on) ==
    /\ auto_save' = on
    /\ script' = IF on /\ extension_enabled
                 THEN startAutoSaveListeners(script)
                 ELSE stopAutoSaveListeners(script)
    /\ UNCHANGED <<extension_enabled, save_cats, webStorage, cookies, last_saved, page,
                   writerVars, restoreVars, sessionVars, cacheVars>>

\* part_000:592-606 startAutoSaveListeners has run in a page that is still
\* loading, or in one that is loaded (then the timer of 3 s is set).
AutoSaveInit ==
    /\ extension_enabled = TRUE
    /\ auto_save = TRUE
    /\ save_cats = Categories
    /\ webStorage = <<>>
    /\ NoWriters
    /\ NoRestores
    /\ NoSession
    /\ NoSweep
    /\ \E readyState \in {"loading", "complete"} :
          /\ page = [now |-> SAVE_DEBOUNCE_MS, readyState |-> readyState,
                     until |-> SAVE_DEBOUNCE_MS + MaxTime * 1000]
          /\ script = [autoSaveEnabled |-> TRUE,
                       listeners |-> {"visibilitychange", "beforeunload", "pagehide"}
                                       \cup (IF readyState = "complete"
                                             THEN {} ELSE {"load"}),
                       returned |-> 0,
                       saveDebounceTimer |-> NoTimer,
                       lastSaveTime |-> 0,
                       loadTimers |-> IF readyState = "complete"
                                      THEN {SAVE_DEBOUNCE_MS + 3000} ELSE {},
                       running |-> 0,
                       starts |-> <<>>]

AutoSaveNext ==
    \/ Tick
    \/ \E visibilityState \in {"hidden", "visible"} : VisibilityChange(visibilityState)
    \/ BeforeUnload
    \/ PageLoad
    \/ \E t \in script.loadTimers : LoadTimerFires(t)
    \/ DebounceTimerFires
    \/ \E sent \in BOOLEAN : CaptureEnds(sent)

SpecAutoSave == AutoSaveInit /\ [][AutoSaveNext]_vars

\* The same page, watched for a shorter time, while auto-save is turned
\* off and on.
MaxWatch == 4     \* seconds

LifecycleInit ==
    /\ extension_enabled = TRUE
    /\ auto_save = TRUE
    /\ save_cats = Categories
    /\ webStorage = <<>>
    /\ NoWriters
    /\ NoRestores
    /\ NoSession
    /\ NoSweep
    /\ \E readyState \in {"loading", "complete"} :
          /\ page = [now |-> SAVE_DEBOUNCE_MS, readyState |-> readyState,
                     until |-> SAVE_DEBOUNCE_MS + MaxWatch * 1000]
          /\ script = [autoSaveEnabled |-> TRUE,
                       listeners |-> {"visibilitychange", "beforeunload", "pagehide"}
                                       \cup (IF readyState = "complete"
                                             THEN {} ELSE {"load"}),
                       returned |-> 0,
                       saveDebounceTimer |-> NoTimer,
                       lastSaveTime |-> 0,
                       loadTimers |-> IF readyState = "complete"
                                      THEN {SAVE_DEBOUNCE_MS + 3000} ELSE {},
                       running |-> 0,
                       starts |-> <<>>]

LifecycleNext ==
    \/ Tick
    \/ \E visibilityState \in {"hidden", "visible"} : VisibilityChange(visibilityState)
    \/ BeforeUnload
    \/ PageLoad
    \/ \E t \in script.loadTimers : LoadTimerFires(t)
    \/ DebounceTimerFires
    \/ \E sent \in BOOLEAN : CaptureEnds(sent)
    \/ \E on \in BOOLEAN : SettingsChanged(on)

SpecLifecycle == LifecycleInit /\ [][LifecycleNext]_vars

(* -------------------------- claims: debounce --------------------------- *)

\* C24: of the captures a page starts, no two start within 5 seconds of
\* each other, whatever events arrive and whenever, also while a capture is
\* running.
C24_OneCapturePerWindow ==
    \A i, j \in DOMAIN script.starts :
       i < j => script.starts[j] - script.starts[i] >= SAVE_DEBOUNCE_MS


(* =================== A CAPTURE RUN OVER SEVERAL ORIGINS =============== *)
(* saveWebStorage asks the origins' tabs one after the other, and        *)
(* collectWebStorageFromTabs asks them all at once and waits for all of  *)
(* them; each chrome.tabs.sendMessage is awaited inside its own try.     *)
(* Here page holds what each origin's tab does with the message and      *)
(* script the run of writer 1.                                           *)

\* chrome.tabs.sendMessage for a tab: the promise rejects (no content script
\* in the tab, the tab is gone), or it is fulfilled with nothing, or with
\* the answer of the page.
Rejected == [status |-> "rejected", value |-> <<>>]
Fulfilled(value) == [status |-> "fulfilled", value |-> value]
SendOutcomes ==
    {Rejected, Fulfilled(<<>>)} \cup {Fulfilled(<<r>>) : r \in RawShapes(1)}

\* background.js:90-96, 417-423: originTabs has one tab for each origin, in
\* the order of the tabs.
OriginTabs ==
    {s \in SeqsUpTo(Origins, Cardinality(Origins)) :
        \A i, j \in 1..Len(s) : i # j => s[i] # s[j]}

\* background.js:104-126, 435-457: what the answer of one tab gives for its
\* origin: nothing (<<>>), or its storageData when that is not empty. A
\* rejection is caught and gives nothing.
Contribution(outcome) ==
    IF /\ outcome.status = "fulfilled"
       /\ outcome.value # <<>>
       /\ DOMAIN StorageData(outcome.value[1]) # {}
    THEN <<StorageData(outcome.value[1])>>
    ELSE <<>>

\* (changed code: the try is around the whole loop, a rejection leaves it)
SwsTurnLeavesLoop(s, outcome) ==
    LET o == s.originTabs[s.i]
        c == Contribution(outcome) IN
    IF outcome.status = "rejected"
    THEN [s EXCEPT !.i = Len(s.originTabs) + 1]
    ELSE [s EXCEPT !.i = s.i + 1,
                   !.webStorage = IF c # <<>>
                                  THEN Overlay(s.webStorage, [x \in {o} |-> c[1]])
                                  ELSE s.webStorage]

\* background.js:98-127: one turn of the loop of saveWebStorage, with what
\* the awaited sendMessage gave.
SwsTurn(s, outcome) ==
    LET o == s.originTabs[s.i]
        c == Contribution(outcome) IN
    [s EXCEPT !.i = s.i + 1,
              !.webStorage = IF c # <<>>
                             THEN Overlay(s.webStorage, [x \in {o} |-> c[1]])
                             ELSE s.webStorage]

\* background.js:462-466: webStorage is built from the results that hold a
\* value.
CollectedFrom(results) ==
    [o \in {x \in DOMAIN results : results[x] # <<>>} |-> results[o][1]]

\* background.js:129-133, 533-537: what the caller does next with the
\* collected mapping: saveWebStorage reads the stored mapping when something
\* was collected, saveAllData writes the collected mapping.
HandedOver(s) ==
    IF s.kind = "saveWebStorage"
    THEN [wr EXCEPT ![1] =
            [IdleWriter EXCEPT
                !.pc = IF DOMAIN s.webStorage # {} THEN "read" ELSE "done",
                !.kind = "saveWebStorage",
                !.data = s.webStorage]]
    ELSE [wr EXCEPT ![1] =
            [IdleWriter EXCEPT !.pc = "write", !.kind = "saveAllData",
                               !.data = s.webStorage]]

\* background.js:85, 411 (and 530 before it): getPrivateTabs has answered
\* and the messages go out: the first one in saveWebStorage, all of them in
\* collectWebStorageFromTabs.
TabsQueried(kind) ==
    /\ script.pc = "idle"
    /\ LET none == Len(script.originTabs) = 0
           s == [script EXCEPT !.kind = kind,
                               !.pc = IF none THEN "collected" ELSE "sending",
                               !.pending = IF kind = "saveAllData"
                                           THEN DOMAIN page.tabs ELSE {}] IN
       /\ script' = s
       /\ wr' = IF none THEN HandedOver(s) ELSE wr
    /\ cookies' = IF kind = "saveAllData" THEN 1 ELSE cookies
    /\ UNCHANGED <<settingVars, webStorage, last_saved, page, restoreVars,
                   sessionVars, cacheVars>>

\* background.js:98-127: the tab of the current origin has settled.
SwsTabSettles ==
    /\ script.pc = "sending"
    /\ script.kind = "saveWebStorage"
    /\ LET s == SwsTurn(script, page.tabs[script.originTabs[script.i]])
           last == s.i > Len(s.originTabs)
           t == [s EXCEPT !.pc = IF last THEN "collected" ELSE "sending"] IN
       /\ script' = t
       /\ wr' = IF last THEN HandedOver(t) ELSE wr
    /\ UNCHANGED <<storeVars, page, restoreVars, sessionVars, cacheVars>>

\* background.js:427-459: the tab of one of the origins has settled;
\* Promise.allSettled goes on when all have (background.js:462-469).
CollectTabSettles(o) ==
    /\ script.pc = "sending"
    /\ script.kind = "saveAllData"
    /\ o \in script.pending
    /\ LET results == [script.results EXCEPT ![o] = Contribution(page.tabs[o])]
           last == script.pending = {o}
           t == [script EXCEPT
                    !.results = results,
                    !.pending = script.pending \ {o},
                    !.pc = IF last THEN "collected" ELSE "sending",
                    !.webStorage = IF last THEN CollectedFrom(results)
                                   ELSE script.webStorage] IN
       /\ script' = t
       /\ wr' = IF last THEN HandedOver(t) ELSE wr
    /\ UNCHANGED <<storeVars, page, restoreVars, sessionVars, cacheVars>>

CollectInit ==
    /\ extension_enabled = TRUE
    /\ auto_save = TRUE
    /\ save_cats \in {Categories, {"indexedDB"}}
    /\ webStorage = [o \in {"https://a.example"} |-> EntryOf({"localStorage"}, 0)]
    /\ cookies = 0
    /\ last_saved = 0
    /\ wr = [w \in Writers |-> IdleWriter]
    /\ \E originTabs \in OriginTabs :
          LET os == {originTabs[i] : i \in 1..Len(originTabs)} IN
          /\ page \in [tabs : [os -> SendOutcomes]]
          /\ script = [pc |-> "idle", kind |-> "none", originTabs |-> originTabs,
                       i |-> 1, pending |-> {},
                       results |-> [o \in os |-> <<>>], webStorage |-> <<>>]
    /\ NoRestores
    /\ NoSession
    /\ NoSweep

CollectNext ==
    \/ \E kind \in {"saveWebStorage", "saveAllData"} : TabsQueried(kind)
    \/ SwsTabSettles
    \/ \E o \in Origins : CollectTabSettles(o)
    \/ \E w \in Writers : ReadExisting(w)
    \/ \E w \in Writers : SwsWrite(w)
    \/ \E w \in Writers : SaveAllWrite(w)

SpecCollect == CollectInit /\ [][CollectNext]_vars

(* ------------------- claims: capture over origins --------------------- *)

\* The categories of an answer that are enabled and not empty.
EnabledData(r) ==
    [c \in {k \in DOMAIN r \cap save_cats : r[k] # {}} |-> r[c]]

\* C25: in a capture run over several origins, an origin whose tab fails
\* does not cancel the others: every origin whose tab answers with enabled
\* categories that are not empty is in the collected result with them, and
\* an origin whose tab fails is not in it.
C25_FailureCancelsNothing ==
    script.pc = "collected" =>
        \A o \in DOMAIN page.tabs :
            LET t == page.tabs[o] IN
            /\ (t.status = "fulfilled" /\ t.value # <<>>
                    /\ DOMAIN EnabledData(t.value[1]) # {})
                  => /\ o \in DOMAIN script.webStorage
                     /\ script.webStorage[o] = EnabledData(t.value[1])
            /\ t.status = "rejected" => o \notin DOMAIN script.webStorage

\* A run of saveWebStorage has ended with the first origin's tab failing, the
\* second origin collected and then stored.
C25_Witness ==
    /\ script.pc = "collected"
    /\ Len(script.originTabs) = 2
    /\ page.tabs[script.originTabs[1]].status = "rejected"
    /\ script.originTabs[2] \in DOMAIN script.webStorage
    /\ script.kind = "saveWebStorage"
    /\ wr[1].pc = "done"
    /\ script.originTabs[2] \in DOMAIN webStorage


\* C26: the capture of localStorage is best-effort key by key: when the
\* read of one item fails, every other item of the page, those after the
\* failing one included, is in the captured mapping with its value.
C26_OnlyFailingKeyOmitted ==
    \A n \in 1..Len(script.log) :
       script.log[n].kind = "get" =>
          LET ls == script.log[n].page.ls
              captured == script.log[n].response.localStorage IN
          \A i \in 1..Len(ls) :
             i # script.log[n].failAt =>
                \E j \in 1..Len(captured) : captured[j] = ls[i]


\* The localStorage of the page before the n-th request.
StorageBefore(n) ==
    IF n = 1 THEN script.first.ls ELSE script.log[n - 1].page.ls

\* C27: a restore of localStorage writes every key/value pair of the
\* snapshot; without clearFirst every item of the page whose key is not in
\* the snapshot is still there with its old value, and no key of the page
\* is removed.
C27_WritesAllKeepsOthers ==
    \A n \in 1..Len(script.log) :
       (script.log[n].kind = "set" /\ "localStorage" \in DOMAIN script.snapshot) =>
          LET data == script.snapshot.localStorage
              before == StorageBefore(n)
              after == script.log[n].page.ls IN
          /\ \A i \in 1..Len(data) : \E j \in 1..Len(after) : after[j] = data[i]
          /\ ~script.log[n].clearFirst =>
                /\ \A i \in 1..Len(before) :
                      before[i][1] \notin KeysOf(data)
                         => \E j \in 1..Len(after) : after[j] = before[i]
                /\ KeysOf(before) \subseteq KeysOf(after)


\* The entry of a snapshot cannot be restored in this page: its response
\* cannot be made, or its put is rejected.
EntryFails(entry) ==
    ResponseThrows(entry.response.status) \/ entry.url \in page.putFails

\* C29: in a restore of the Cache API, an entry that cannot be made or put
\* does not end the restore: every other entry of its cache and every
\* entry of the other caches of the snapshot is in the page's cache of that
\* name, under its url.
C29_EntryFailureGoesOn ==
    \A n \in 1..Len(script.log) :
       ( /\ script.log[n].kind = "set"
         /\ "cacheStorage" \in DOMAIN script.snapshot
         /\ script.includeCache /\ page.secure ) =>
          LET caches_data == script.snapshot.cacheStorage
              restored == script.log[n].page.caches IN
          \A c \in 1..Len(caches_data) : \A i \in 1..Len(caches_data[c].entries) :
             LET entry == caches_data[c].entries[i] IN
             ~EntryFails(entry) =>
                \E rc \in 1..Len(restored) :
                   /\ restored[rc].name = caches_data[c].name
                   /\ \E ri \in 1..Len(restored[rc].entries) :
                         /\ restored[rc].entries[ri].url = entry.url
                         /\ restored[rc].entries[ri].status = entry.response.status

\* A snapshot of two caches was restored into a page without caches; the
\* first entry of its first cache failed, the second entry of that cache
\* and the entry of the other cache are in the page.
C29_Witness ==
    /\ "cacheStorage" \in DOMAIN script.snapshot
    /\ script.includeCache /\ page.secure
    /\ script.first.caches = <<>>
    /\ Len(script.log) = 1 /\ script.log[1].kind = "set"
    /\ Len(script.snapshot.cacheStorage) = 2
    /\ EntryFails(script.snapshot.cacheStorage[1].entries[1])
    /\ Len(page.caches) = 2
    /\ Len(page.caches[1].entries) = 1
    /\ page.caches[1].entries[1].url = script.snapshot.cacheStorage[1].entries[2].url
    /\ Len(page.caches[2].entries) = 1


\* C30: the capture of the Cache API is fault tolerant item by item: when
\* the open of a cache or the lookup or the serialization of an entry
\* fails, only that item is skipped. Every response the sweep had found and
\* serialized is in the result when the sweep has ended.
C30_ItemLevelFaultTolerance ==
    sweep.pc = "done" =>
       \A u \in Requests :
          ( /\ EntryAt(u).reached
            /\ EntryAt(u).match = "response"
            /\ ~Serialized(EntryAt(u)).skip )
          => u \in Captured


(* ============= INDEXEDDB, FROM ONE CALLBACK TO THE NEXT ================ *)
(* getIndexedDBData and setIndexedDBData (part_000:42-247) as the page    *)
(* runs them: a step is one callback of a request or of a transaction.    *)
(* Here page holds the databases of the origin, and script the position   *)
(* of the function, the connections it has open and the calls it made.    *)

\* A record value: the property id (the in-line key, when it has one) and
\* a field.
Value(id, f) == [id |-> id, f |-> f]

Record(key, value) == [key |-> key, value |-> value]

\* The object stores of a snapshot: out-of-line keys with and without a key
\* generator, in-line keys with and without one, and a store without
\* records. Captured records are in the order of their keys.
IdbStoreShapes ==
    { StoreData("s1", KeyPath("id"), FALSE,
                <<Index("i", KeyPath("f"), FALSE, FALSE)>>,
                <<Record(1, Value(<<1>>, 7)), Record(4, Value(<<4>>, 8))>>),
      StoreData("s2", NoKeyPath, TRUE, <<>>,
                <<Record(3, Value(<<>>, 7)), Record(5, Value(<<>>, 8))>>),
      StoreData("s3", NoKeyPath, FALSE, <<>>,
                <<Record(2, Value(<<9>>, 7))>>),
      StoreData("s4", KeyPath("id"), TRUE, <<>>,
                <<Record(6, Value(<<6>>, 7))>>),
      StoreData("s5", NoKeyPath, TRUE, <<>>, <<>>) }

\* The snapshots: one database, or two, the stores of a database under
\* different names.
IdbSnapshots ==
    LET stores == {q \in SeqsUpTo(IdbStoreShapes, MaxStores) :
                      /\ Len(q) > 0
                      /\ \A i, j \in 1..Len(q) : i # j => q[i].name # q[j].name}
        db1 == {[name |-> "db1", version |-> 2, objectStores |-> q] : q \in stores}
        db2 == [name |-> "db2", version |-> 1,
                objectStores |-> <<StoreData("s2", NoKeyPath, TRUE, <<>>,
                                             <<Record(3, Value(<<>>, 7))>>)>>]
    IN {<<a>> : a \in db1} \cup {<<a, db2>> : a \in db1}

\* One call of the script to the storage engine, or of the engine to a
\* handler of the script.
Call(op, db, store, key, value) ==
    [op |-> op, db |-> db, store |-> store, key |-> key, value |-> value]

\* The key a key generator gives next in a store that was just made.
Generated(store) ==
    LET keys == {r.key : r \in store.records}
    IN IF keys = {} THEN 1 ELSE 1 + (CHOOSE k \in keys : \A x \in keys : x <= k)

\* store.put(value, key): the key the record is stored under (<<k>>), or
\* <<>> when put throws DataError: an explicit key for a store with in-line
\* keys, or no key at all for a store without a generator.
StoredUnder(store, value, key) ==
    IF store.keyPath # NoKeyPath
    THEN IF key # <<>> THEN <<>>
         ELSE IF value.id # <<>> THEN value.id
         ELSE IF store.autoIncrement THEN <<Generated(store)>> ELSE <<>>
    ELSE IF key # <<>> THEN key
         ELSE IF store.autoIncrement THEN <<Generated(store)>> ELSE <<>>

\* store.put(value, key) that does not throw: the record replaces the one
\* of its key; a generated in-line key is written into the value.
IdbPut(store, value, key) ==
    LET k == StoredUnder(store, value, key)[1]
        v == IF store.keyPath # NoKeyPath THEN [value EXCEPT !.id = <<k>>] ELSE value
    IN [store EXCEPT !.records = {r \in @ : r.key # k} \cup {Record(k, v)}]

\* (changed code: put is always called without a key)
PutKeyNever(storeData, record) == <<>>

\* part_000:237-241: the key argument of put: record.key when the keyPath
\* of the snapshot is null, none otherwise.
PutKey(storeData, record) ==
    IF storeData.keyPath = NoKeyPath THEN <<record.key>> ELSE <<>>

\* part_000:233-242: the executor of populateObjectStore puts the records
\* in the order of storeData.data, up to a put that throws: the store as
\* the transaction has it, the puts that were made, and whether one threw.
RECURSIVE Puts(_, _, _, _, _)
Puts(db, store, storeData, i, calls) ==
    IF i > Len(storeData.data)
    THEN [threw |-> FALSE, store |-> store, calls |-> calls]
    ELSE LET record == storeData.data[i]
             key == PutKey(storeData, record)
             call == Call("put", db, storeData.name, key, <<record.value>>)
         IN IF StoredUnder(store, record.value, key) = <<>>
            THEN [threw |-> TRUE, store |-> store, calls |-> Append(calls, call)]
            ELSE Puts(db, IdbPut(store, record.value, key), storeData, i + 1,
                      Append(calls, call))

\* part_000:184-202: the calls of onupgradeneeded, store by store.
RECURSIVE UpgradeCalls(_, _, _)
UpgradeCalls(db, objectStores, i) ==
    IF i > Len(objectStores) THEN <<>>
    ELSE LET storeData == objectStores[i]
         IN <<Call("createObjectStore", db, storeData.name, <<>>, <<>>)>>
            \o [n \in DOMAIN storeData.indexes |->
                  Call("createIndex", db, storeData.name,
                       <<storeData.indexes[n].name>>, <<>>)]
            \o UpgradeCalls(db, objectStores, i + 1)


\* The databases with the store of that name in one of them replaced.
WithStore(dbs, name, store) ==
    {IF db.name = name
     THEN [db EXCEPT !.stores = {s \in @ : s.name # store.name} \cup {store}]
     ELSE db : db \in dbs}

TheStore(dbs, name, storeName) ==
    LET db == CHOOSE x \in dbs : x.name = name
    IN CHOOSE s \in db.stores : s.name = storeName

\* (changed code: the database is opened without being deleted first)
OpenWithoutDelete(s, d) ==
    IF d > Len(s.snapshot)
    THEN [s EXCEPT !.pc = "done", !.db = 0, !.store = 0]
    ELSE [s EXCEPT !.pc = "upgrading", !.db = d, !.store = 0,
                   !.calls = Append(@, Call("open", s.snapshot[d].name, "",
                                            <<s.snapshot[d].version>>, <<>>))]

\* part_000:162-176: setIndexedDBData comes to the d-th database of the
\* snapshot and restoreDatabase asks for the deletion of its name; after
\* the last one setIndexedDBData returns.
DeleteIssued(s, d) ==
    IF d > Len(s.snapshot)
    THEN [s EXCEPT !.pc = "done", !.db = 0, !.store = 0]
    ELSE [s EXCEPT !.pc = "deleting", !.db = d, !.store = 0,
                   !.calls = Append(@, Call("deleteDatabase", s.snapshot[d].name,
                                            "", <<>>, <<>>))]

\* (changed code: the connection is closed only when no store failed)
CloseUnlessFailed(s, name) ==
    IF s.failed THEN s
    ELSE [s EXCEPT !.conns = @ \ {name},
                   !.calls = Append(@, Call("close", name, "", <<>>, <<>>))]

\* part_000:219, 96: db.close()
Close(s, name) ==
    [s EXCEPT !.conns = @ \ {name},
              !.calls = Append(@, Call("close", name, "", <<>>, <<>>))]

\* part_000:205-221: request.onsuccess from the j-th store on: the next
\* store with records is populated; a put that throws rejects the Promise
\* of populateObjectStore at once, which is caught, while the transaction
\* keeps the puts made before it. After the last store the connection is
\* closed and the Promise of restoreDatabase resolved.
RECURSIVE PopulateFrom(_, _, _)
PopulateFrom(dbs, s, j) ==
    LET dbData == s.snapshot[s.db]
        objectStores == dbData.objectStores
    IN IF j > Len(objectStores)
       THEN [dbs |-> dbs, script |-> DeleteIssued(Close(s, dbData.name), s.db + 1)]
       ELSE IF Len(objectStores[j].data) = 0
       THEN PopulateFrom(dbs, s, j + 1)
       ELSE LET puts == Puts(dbData.name,
                             TheStore(dbs, dbData.name, objectStores[j].name),
                             objectStores[j], 1, <<>>)
                called == [s EXCEPT !.calls =
                             Append(@, Call("transaction", dbData.name,
                                            objectStores[j].name, <<>>, <<>>))
                             \o puts.calls]
            IN IF puts.threw
               THEN PopulateFrom(WithStore(dbs, dbData.name, puts.store),
                                 [called EXCEPT !.failed = TRUE], j + 1)
               ELSE [dbs |-> dbs,
                     script |-> [called EXCEPT !.pc = "populating", !.store = j,
                                               !.tx = <<puts.store>>]]

\* A setStorageData request has come to setIndexedDBData (part_000:470-472).
RestoreStarts ==
    /\ script.pc = "idle"
    /\ script.op = "restore"
    /\ script' = DeleteIssued(script, 1)
    /\ UNCHANGED <<page, storeVars, writerVars, restoreVars, sessionVars, cacheVars>>

\* part_000:176-180, 226: deleteRequest.onsuccess opens the database with
\* the recorded version; deleteRequest.onerror rejects, which
\* setIndexedDBData catches (part_000:165-167).
IdbDeleteSettled(succeeded) ==
    /\ script.pc = "deleting"
    /\ LET dbData == script.snapshot[script.db] IN
       IF succeeded
       THEN /\ page' = [page EXCEPT !.dbs = {db \in @ : db.name # dbData.name}]
            /\ script' = [script EXCEPT
                            !.pc = "upgrading",
                            !.calls = Append(@, Call("open", dbData.name, "",
                                                     <<dbData.version>>, <<>>))]
       ELSE /\ script' = DeleteIssued(script, script.db + 1)
            /\ UNCHANGED page
    /\ UNCHANGED <<storeVars, writerVars, restoreVars, sessionVars, cacheVars>>

\* part_000:182-203: request.onupgradeneeded makes the stores and their
\* indexes; a call that throws aborts the upgrade.
UpgradeNeeded ==
    /\ script.pc = "upgrading"
    /\ LET dbData == script.snapshot[script.db]
           upgrade == Upgrade(dbData.objectStores, 1, {}) IN
       script' = [script EXCEPT
                    !.pc = "opening",
                    !.aborted = upgrade.aborted,
                    !.calls = Append(@, Call("upgradeneeded", dbData.name, "",
                                             <<>>, <<>>))
                              \o UpgradeCalls(dbData.name, dbData.objectStores, 1)]
    /\ UNCHANGED <<page, storeVars, writerVars, restoreVars, sessionVars, cacheVars>>

\* part_000:205-223: the open request settles: request.onsuccess holds the
\* connection and populates the stores; request.onerror (the upgrade was
\* aborted, or could not be written) rejects.
IdbOpenSettled(succeeded) ==
    /\ script.pc = "opening"
    /\ succeeded => ~script.aborted
    /\ LET dbData == script.snapshot[script.db]
           upgrade == Upgrade(dbData.objectStores, 1, {})
           made == page.dbs \cup {[name |-> dbData.name, version |-> dbData.version,
                                   stores |-> upgrade.stores]}
           opened == [script EXCEPT
                        !.conns = @ \cup {dbData.name},
                        !.failed = FALSE,
                        !.calls = Append(@, Call("success", dbData.name, "",
                                                 <<>>, <<>>))]
           next == PopulateFrom(made, opened, 1) IN
       IF succeeded
       THEN /\ page' = [page EXCEPT !.dbs = next.dbs]
            /\ script' = next.script
       ELSE /\ script' = DeleteIssued([script EXCEPT !.aborted = FALSE],
                                      script.db + 1)
            /\ UNCHANGED page
    /\ UNCHANGED <<storeVars, writerVars, restoreVars, sessionVars, cacheVars>>

\* part_000:244-245: the transaction of populateObjectStore completes
\* (its puts are stored), or a put fails and the transaction is rolled back
\* (transaction.onerror rejects, part_000:213 catches), or it is aborted
\* with no request having failed: nothing listens, the Promise stays
\* pending.
IdbPopulateSettled(outcome) ==
    /\ script.pc = "populating"
    /\ LET dbData == script.snapshot[script.db]
           dbs == IF outcome = "complete"
                  THEN WithStore(page.dbs, dbData.name, script.tx[1])
                  ELSE page.dbs
           s == [script EXCEPT
                    !.tx = <<>>,
                    !.failed = @ \/ outcome # "complete",
                    !.calls = Append(@, Call("on" \o outcome, dbData.name,
                                             dbData.objectStores[script.store].name,
                                             <<>>, <<>>))]
           next == PopulateFrom(dbs, s, script.store + 1) IN
       IF outcome = "abort"
       THEN /\ script' = [s EXCEPT !.pc = "pending"]
            /\ UNCHANGED page
       ELSE /\ page' = [page EXCEPT !.dbs = next.dbs]
            /\ script' = next.script
    /\ UNCHANGED <<storeVars, writerVars, restoreVars, sessionVars, cacheVars>>


\* The records of a store in the order of their keys, as getAll and
\* getAllKeys list them.
RECURSIVE ByKey(_)
ByKey(records) ==
    IF records = {} THEN <<>>
    ELSE LET first == CHOOSE r \in records : \A x \in records : r.key <= x.key
         IN <<first>> \o ByKey(records \ {first})

\* (changed code: the keys are paired from the end)
PairedBackwards(records, keys) ==
    [i \in DOMAIN records |-> Record(keys[Len(keys) + 1 - i], records[i])]

\* part_000:137, 145: records.map((record, i) => ({key: keys[i], value: record}))
Paired(records, keys) ==
    [i \in DOMAIN records |-> Record(keys[i], records[i])]

\* part_000:49-55: getIndexedDBData comes to the d-th database of the list
\* and extractDatabaseData opens it (part_000:68); after the last one
\* getIndexedDBData returns.
OpenIssued(s, d) ==
    IF d > Len(s.dbList)
    THEN [s EXCEPT !.pc = "done", !.db = 0, !.store = 0]
    ELSE [s EXCEPT !.pc = "connecting", !.db = d, !.store = 0,
                   !.calls = Append(@, Call("open", s.dbList[d], "", <<>>, <<>>))]

\* part_000:84-97: the loop of request.onsuccess comes to the j-th store:
\* extractObjectStoreData starts a transaction and asks for the records and
\* the keys (part_000:108, 131-132). After the last store the connection is
\* closed, the Promise resolved and dbData pushed (part_000:51-53).
ExtractFrom(s, j) ==
    IF j > Len(s.storeNames)
    THEN OpenIssued([Close(s, s.dbList[s.db]) EXCEPT
                        !.result = Append(@, s.dbData)],
                    s.db + 1)
    ELSE [s EXCEPT !.pc = "extracting", !.store = j,
                   !.records = <<>>, !.keys = <<>>, !.fired = {},
                   !.calls = Append(@, Call("transaction", s.dbList[s.db],
                                            s.storeNames[j], <<>>, <<>>))]

\* (changed code: no try around one store, its failure ends the database)
StoreRejectedLeaves(s, j) ==
    ExtractFrom([s EXCEPT !.failed = TRUE,
                          !.calls = Append(@, Call("reject", s.dbList[s.db],
                                                   s.storeNames[j], <<>>, <<>>))],
                Len(s.storeNames) + 1)

\* part_000:153-154, 88-90: a failing request rejects the Promise of
\* extractObjectStoreData; the loop catches it and goes on.
StoreRejected(s, j) ==
    ExtractFrom([s EXCEPT !.failed = TRUE,
                          !.calls = Append(@, Call("reject", s.dbList[s.db],
                                                   s.storeNames[j], <<>>, <<>>))],
                j + 1)

\* part_000:138, 146, 86-87: the Promise of extractObjectStoreData is
\* resolved with storeData, which is pushed.
StoreResolved(s, j, storeData) ==
    ExtractFrom([s EXCEPT !.dbData.objectStores = Append(@, storeData),
                          !.calls = Append(@, Call("resolve", s.dbList[s.db],
                                                   s.storeNames[j], <<>>, <<>>))],
                j + 1)

\* A getStorageData request has come to getIndexedDBData (part_000:438);
\* indexedDB.databases() lists the databases of the origin.
CaptureStarts ==
    /\ script.pc = "idle"
    /\ script.op = "capture"
    /\ script' = OpenIssued([script EXCEPT
                               !.dbList = Listed({db.name : db \in page.dbs})], 1)
    /\ UNCHANGED <<page, storeVars, writerVars, restoreVars, sessionVars, cacheVars>>

\* part_000:70-97, 74: the open request of extractDatabaseData settles:
\* request.onsuccess holds the connection and starts with the first store;
\* request.onerror resolves with null.
CaptureOpenSettled(succeeded) ==
    /\ script.pc = "connecting"
    /\ LET name == script.dbList[script.db]
           db == CHOOSE x \in page.dbs : x.name = name IN
       script' =
          IF succeeded
          THEN ExtractFrom([script EXCEPT
                              !.conns = @ \cup {name},
                              !.failed = FALSE,
                              !.dbData = [name |-> name, version |-> db.version,
                                          objectStores |-> <<>>],
                              !.storeNames = Listed({s.name : s \in db.stores})],
                           1)
          ELSE OpenIssued([script EXCEPT
                              !.calls = Append(@, Call("error", name, "", <<>>, <<>>))],
                          script.db + 1)
    /\ UNCHANGED <<page, storeVars, writerVars, restoreVars, sessionVars, cacheVars>>

\* part_000:134-154: request (getAll) or keyRequest (getAllKeys) settles.
\* onsuccess keeps the result and resolves when the other result is there;
\* onerror rejects.
RequestSettled(which, succeeded) ==
    /\ script.pc = "extracting"
    /\ which \notin script.fired
    /\ LET store == TheStore(page.dbs, script.dbList[script.db],
                             script.storeNames[script.store])
           listed == ByKey(store.records)
           records == IF which = "request"
                      THEN [i \in DOMAIN listed |-> listed[i].value]
                      ELSE script.records
           keys == IF which = "keyRequest"
                   THEN [i \in DOMAIN listed |-> listed[i].key]
                   ELSE script.keys
           fired == script.fired \cup {which}
           storeData == [extractObjectStoreData(store) EXCEPT
                            !.data = Paired(records, keys)]
           s == [script EXCEPT
                    !.calls = Append(@, Call(IF succeeded THEN "onsuccess"
                                             ELSE "onerror",
                                             script.dbList[script.db], store.name,
                                             <<which>>, <<>>))] IN
       script' =
          IF ~succeeded THEN StoreRejected(s, script.store)
          ELSE IF fired = {"request", "keyRequest"}
          THEN StoreResolved(s, script.store, storeData)
          ELSE [s EXCEPT !.records = records, !.keys = keys, !.fired = fired]
    /\ UNCHANGED <<page, storeVars, writerVars, restoreVars, sessionVars, cacheVars>>

\* The database a completed restore of dbData makes.
Built(dbData) ==
    [name |-> dbData.name, version |-> dbData.version,
     stores |-> {LET storeData == dbData.objectStores[
                        CHOOSE i \in DOMAIN dbData.objectStores :
                           dbData.objectStores[i].name = s.name]
                 IN Puts(dbData.name, s, storeData, 1, <<>>).store :
                   s \in Upgrade(dbData.objectStores, 1, {}).stores}]

IdbInit ==
    /\ extension_enabled = TRUE
    /\ auto_save = FALSE
    /\ save_cats = Categories
    /\ webStorage = <<>>
    /\ NoWriters
    /\ NoRestores
    /\ NoSession
    /\ NoSweep
    /\ \E snapshot \in IdbSnapshots, op \in {"capture", "restore"},
          empty \in BOOLEAN :
          /\ op = "capture" => ~empty
          /\ page = [dbs |-> IF empty THEN {}
                             ELSE {Built(snapshot[d]) : d \in DOMAIN snapshot}]
          /\ script = [pc |-> "idle", op |-> op,
                       snapshot |-> IF op = "restore" THEN snapshot ELSE <<>>,
                       db |-> 0, store |-> 0, conns |-> {}, calls |-> <<>>,
                       tx |-> <<>>, aborted |-> FALSE, failed |-> FALSE,
                       dbList |-> <<>>, storeNames |-> <<>>, dbData |-> <<>>,
                       result |-> <<>>, records |-> <<>>, keys |-> <<>>,
                       fired |-> {}]

IdbNext ==
    \/ RestoreStarts
    \/ \E succeeded \in BOOLEAN : IdbDeleteSettled(succeeded)
    \/ UpgradeNeeded
    \/ \E succeeded \in BOOLEAN : IdbOpenSettled(succeeded)
    \/ \E outcome \in {"complete", "error", "abort"} : IdbPopulateSettled(outcome)
    \/ CaptureStarts
    \/ \E succeeded \in BOOLEAN : CaptureOpenSettled(succeeded)
    \/ \E which \in {"request", "keyRequest"}, succeeded \in BOOLEAN :
          RequestSettled(which, succeeded)

SpecIdb == IdbInit /\ [][IdbNext]_vars


(* ---------------------- claims: IndexedDB ------------------------------ *)

\* The script has made a call of that kind for the database and the store.
Called(op, db, store) ==
    \E i \in DOMAIN script.calls :
       /\ script.calls[i].op = op
       /\ script.calls[i].db = db
       /\ script.calls[i].store = store

\* C31: the capture of IndexedDB is fault tolerant item by item: a database
\* that fails to open and a store that fails to be read are missing from
\* the result, and nothing else is: every other database is captured,
\* with every other store and all its records.
C31_CaptureItemLevel ==
    (script.op = "capture" /\ script.pc = "done") =>
       \A db \in page.dbs :
          ~Called("error", db.name, "") =>
             \E r \in DOMAIN script.result :
                /\ script.result[r].name = db.name
                /\ \A s \in db.stores :
                      ~Called("reject", db.name, s.name) =>
                         \E o \in DOMAIN script.result[r].objectStores :
                            LET storeData == script.result[r].objectStores[o] IN
                            /\ storeData.name = s.name
                            /\ {storeData.data[i] : i \in DOMAIN storeData.data}
                                  = s.records

\* A capture of two databases has ended: the first store of one database
\* failed and its second store is in the result, and the other database
\* failed to open.
C31_Witness ==
    /\ script.op = "capture" /\ script.pc = "done"
    /\ Len(script.dbList) = 2
    /\ Len(script.result) = 1
    /\ Len(script.result[1].objectStores) = 1
    /\ \E i, j \in DOMAIN script.calls :
          /\ i < j
          /\ script.calls[i].op = "reject"
          /\ script.calls[i].db = script.result[1].name
          /\ script.calls[j].op = "resolve"
          /\ script.calls[j].db = script.result[1].name
    /\ \E d \in 1..2 : Called("error", script.dbList[d], "")


\* The positions of the calls of that kind for a database.
Positions(op, db) ==
    {i \in DOMAIN script.calls :
        script.calls[i].op = op /\ script.calls[i].db = db}

\* The values put into a store, in the order of the calls.
RECURSIVE PutValues(_, _, _)
PutValues(db, store, i) ==
    IF i > Len(script.calls) THEN <<>>
    ELSE (IF /\ script.calls[i].op = "put"
             /\ script.calls[i].db = db
             /\ script.calls[i].store = store
          THEN script.calls[i].value ELSE <<>>)
         \o PutValues(db, store, i + 1)

\* C32: the order of a restore, for each database of the snapshot: its name
\* is deleted before it is opened, and it is opened with the recorded
\* version; the stores and the indexes are made inside the upgrade, before
\* the open request succeeds; no record is put before the whole schema is
\* made; the records of a store are put in the order of the snapshot.
C32_RestoreOrder ==
    script.op = "restore" =>
       \A d \in DOMAIN script.snapshot :
          LET dbData == script.snapshot[d]
              name == dbData.name
              made == Positions("createObjectStore", name)
                         \cup Positions("createIndex", name)
              indexes == {<<j, n>> \in (DOMAIN dbData.objectStores) \X (1..1) :
                             n <= Len(dbData.objectStores[j].indexes)} IN
          /\ \A i \in Positions("open", name) :
                /\ \E j \in Positions("deleteDatabase", name) : j < i
                /\ script.calls[i].key = <<dbData.version>>
          /\ \A i \in made :
                /\ \E u \in Positions("upgradeneeded", name) : u < i
                /\ \A x \in Positions("success", name) : i < x
          /\ \A p \in Positions("put", name) :
                /\ \A i \in made : i < p
                /\ Cardinality(Positions("createObjectStore", name))
                      = Len(dbData.objectStores)
                /\ Cardinality(Positions("createIndex", name))
                      = Cardinality(indexes)
          /\ \A j \in DOMAIN dbData.objectStores :
                LET values == PutValues(name, dbData.objectStores[j].name, 1)
                    data == dbData.objectStores[j].data IN
                /\ Len(values) <= Len(data)
                /\ \A i \in DOMAIN values : values[i] = data[i].value

\* A snapshot of two databases was restored: both were deleted, opened,
\* populated and closed, the first one with an index and two stores.
C32_Witness ==
    /\ script.op = "restore" /\ script.pc = "done"
    /\ Len(script.snapshot) = 2
    /\ \A d \in 1..2 :
          /\ Positions("deleteDatabase", script.snapshot[d].name) # {}
          /\ Positions("put", script.snapshot[d].name) # {}
          /\ Positions("close", script.snapshot[d].name) # {}
    /\ Positions("createIndex", script.snapshot[1].name) # {}
    /\ Cardinality(Positions("transaction", script.snapshot[1].name)) = 2
    /\ Cardinality(Positions("put", script.snapshot[1].name)) >= 3


\* The database the script is working on, "" when it is on none.
Current ==
    IF script.pc \in {"populating", "pending"} THEN script.snapshot[script.db].name
    ELSE IF script.pc = "extracting" THEN script.dbList[script.db]
    ELSE ""

\* C33: every connection that capture or restore has opened is closed when
\* the work on its database has ended, with success or with the failure of
\* a store or of the database: the only connection that can be open is the
\* one to the database whose stores are being read or populated.
C33_ConnectionsClosed ==
    \A name \in script.conns : name = Current

\* A restore has ended; the population of a store of its last database had
\* failed, and the connection to that database was closed.
C33_Witness ==
    /\ script.op = "restore" /\ script.pc = "done"
    /\ script.failed
    /\ script.conns = {}
    /\ Positions("close", script.snapshot[Len(script.snapshot)].name) # {}


\* The requests of a store's capture whose handler of that kind was called,
\* and the positions of these calls.
Handled(op, db, store) ==
    {i \in DOMAIN script.calls :
        /\ script.calls[i].op = op
        /\ script.calls[i].db = db
        /\ script.calls[i].store = store}

\* The stores captured so far from a database.
CapturedStores(db) ==
    IF \E r \in DOMAIN script.result : script.result[r].name = db
    THEN script.result[CHOOSE r \in DOMAIN script.result :
                          script.result[r].name = db].objectStores
    ELSE IF script.pc = "extracting" /\ script.dbList[script.db] = db
    THEN script.dbData.objectStores
    ELSE <<>>

\* C34: the capture of an object store settles once: it is resolved only
\* after both the records and the keys have arrived, in whichever order,
\* and then every record is paired with its own primary key; it is
\* rejected when one of the two requests fails.
C34_StoreCaptureSettlesOnce ==
    script.op = "capture" =>
       \A db \in page.dbs : \A s \in db.stores :
          LET resolved == Handled("resolve", db.name, s.name)
              rejected == Handled("reject", db.name, s.name)
              arrived == Handled("onsuccess", db.name, s.name)
              failed == Handled("onerror", db.name, s.name) IN
          /\ Cardinality(resolved \cup rejected) <= 1
          /\ resolved # {} <=> Cardinality(arrived) = 2
          /\ \A i \in resolved : \A j \in arrived : j < i
          /\ rejected # {} <=> failed # {}
          /\ resolved # {} =>
                \E o \in DOMAIN CapturedStores(db.name) :
                   LET data == CapturedStores(db.name)[o].data IN
                   /\ CapturedStores(db.name)[o].name = s.name
                   /\ Len(data) = Cardinality(s.records)
                   /\ \A i \in DOMAIN data : data[i] \in s.records
                   /\ \A i, j \in DOMAIN data : i < j => data[i].key < data[j].key

\* A store of two records was captured with the keys arriving before the
\* records, and another store was rejected after its records had arrived.
C34_Witness ==
    /\ script.op = "capture"
    /\ \E db \in page.dbs : \E s \in db.stores :
          /\ Cardinality(s.records) = 2
          /\ Handled("resolve", db.name, s.name) # {}
          /\ \E i, j \in Handled("onsuccess", db.name, s.name) :
                /\ i < j
                /\ script.calls[i].key = <<"keyRequest">>
                /\ script.calls[j].key = <<"request">>
    /\ \E db \in page.dbs : \E s \in db.stores :
          /\ Handled("reject", db.name, s.name) # {}
          /\ Handled("onsuccess", db.name, s.name) # {}


\* The puts made for a store, in the order of the calls.
RECURSIVE PutCalls(_, _, _)
PutCalls(db, store, i) ==
    IF i > Len(script.calls) THEN <<>>
    ELSE (IF /\ script.calls[i].op = "put"
             /\ script.calls[i].db = db
             /\ script.calls[i].store = store
          THEN <<script.calls[i]>> ELSE <<>>)
         \o PutCalls(db, store, i + 1)

\* C35: at restore a record is put with its captured key exactly when the
\* store of the snapshot has no keyPath, and without a key otherwise; when
\* the population of a store without keyPath has completed, every record of
\* the snapshot is in the store under its captured key.
C35_OutOfLineKeys ==
    script.op = "restore" =>
       \A d \in DOMAIN script.snapshot : \A j \in DOMAIN script.snapshot[d].objectStores :
          LET name == script.snapshot[d].name
              storeData == script.snapshot[d].objectStores[j]
              puts == PutCalls(name, storeData.name, 1) IN
          /\ \A i \in DOMAIN puts :
                puts[i].key = IF storeData.keyPath = NoKeyPath
                              THEN <<storeData.data[i].key>> ELSE <<>>
          /\ ( /\ storeData.keyPath = NoKeyPath
               /\ Handled("oncomplete", name, storeData.name) # {} )
             => \A i \in DOMAIN storeData.data :
                   Record(storeData.data[i].key, storeData.data[i].value)
                      \in TheStore(page.dbs, name, storeData.name).records

\* A database with a store of two records without keyPath and a store with
\* a keyPath was restored, and both populations have completed.
C35_Witness ==
    /\ script.op = "restore" /\ script.pc = "done"
    /\ \E j, k \in DOMAIN script.snapshot[1].objectStores :
          LET a == script.snapshot[1].objectStores[j]
              b == script.snapshot[1].objectStores[k] IN
          /\ a.keyPath = NoKeyPath /\ Len(a.data) = 2
          /\ b.keyPath # NoKeyPath /\ Len(b.data) > 0
          /\ Handled("oncomplete", script.snapshot[1].name, a.name) # {}
          /\ Handled("oncomplete", script.snapshot[1].name, b.name) # {}
          /\ Len(PutCalls(script.snapshot[1].name, a.name, 1)) = 2


(* ==================== BASE64 OF A BUFFER, CHUNK BY CHUNK ============== *)
(* arrayBufferToBase64 (part_000:272-283), one turn of its loop at a      *)
(* time. Here page holds the buffer and script the variables of the      *)
(* function.                                                              *)

MaxChunks == 2

\* part_000:274
chunkSize == 65536

\* The lengths of the buffers: short ones, and those around a multiple of
\* the chunk size.
BufferLengths ==
    0..5 \cup {k * chunkSize + d : k \in 1..MaxChunks, d \in {-1, 0, 1}}

\* The bytes of a buffer of that length, of one of three kinds.
Buffer(length, kind) ==
    SubSeq([i \in 1..length |-> IF kind = 1 THEN (7 * i) % 256
                                ELSE IF kind = 2 THEN 255 - (i % 256)
                                ELSE 65], 1, length)

\* (changed code: the chunk ends one byte early)
ChunkEndShort(i, length) ==
    IF i + chunkSize - 1 < length THEN i + chunkSize - 1 ELSE length

\* part_000:278: Math.min(i + chunkSize, bytes.length)
ChunkEnd(i, length) ==
    IF i + chunkSize < length THEN i + chunkSize ELSE length

\* part_000:278-279: bytes.subarray(i, end) as String.fromCharCode.apply
\* gives it: one character for each byte, with the byte as its code.
FromCharCodes(bytes, i, end) ==
    [k \in 1..(end - i) |-> bytes[i + k]]

\* part_000:277-280: one turn of the loop
ChunkAppended ==
    /\ script.pc = "loop"
    /\ script.i < Len(page.buffer)
    /\ LET end == ChunkEnd(script.i, Len(page.buffer))
           chunk == FromCharCodes(page.buffer, script.i, end) IN
       script' = [script EXCEPT
                    !.binary = @ \o chunk,
                    !.chunks = Append(@, <<script.i, script.i + Len(chunk)>>),
                    !.i = @ + chunkSize]
    /\ UNCHANGED <<page, storeVars, writerVars, restoreVars, sessionVars, cacheVars>>

\* part_000:277, 282: the loop has ended; return btoa(binary)
Encoded ==
    /\ script.pc = "loop"
    /\ script.i >= Len(page.buffer)
    /\ script' = [script EXCEPT !.pc = "returned", !.result = btoa(script.binary)]
    /\ UNCHANGED <<page, storeVars, writerVars, restoreVars, sessionVars, cacheVars>>

Base64Init ==
    /\ extension_enabled = TRUE
    /\ auto_save = FALSE
    /\ save_cats = Categories
    /\ webStorage = <<>>
    /\ NoWriters
    /\ NoRestores
    /\ NoSession
    /\ NoSweep
    /\ \E length \in BufferLengths, kind \in 1..3 :
          page = [buffer |-> Buffer(length, kind)]
    /\ script = [pc |-> "loop", i |-> 0, binary |-> <<>>, chunks |-> <<>>,
                 result |-> <<>>]

Base64Next == ChunkAppended \/ Encoded

SpecBase64 == Base64Init /\ [][Base64Next]_vars

(* ------------------------- claims: base64 ------------------------------ *)

\* C36: the buffer is encoded in chunks of at most 65536 bytes, all but the
\* last of exactly that size; the chunks cover every byte once and in
\* order; and the result is the string that encoding the whole buffer in
\* one operation gives, for every length of the buffer.
C36_ChunkedBase64 ==
    /\ \A c \in DOMAIN script.chunks :
          /\ script.chunks[c][2] - script.chunks[c][1] <= chunkSize
          /\ script.chunks[c][2] > script.chunks[c][1]
          /\ script.chunks[c][1] = IF c = 1 THEN 0 ELSE script.chunks[c - 1][2]
          /\ c < Len(script.chunks)
                => script.chunks[c][2] - script.chunks[c][1] = chunkSize
    /\ script.binary = SubSeq(page.buffer, 1, Len(script.binary))
    /\ script.pc = "returned" =>
          /\ Len(script.binary) = Len(page.buffer)
          /\ script.result = btoa(page.buffer)
          /\ Len(script.result) = 4 * ((Len(page.buffer) + 2) \div 3)

\* A buffer of one byte more than a chunk was encoded in two chunks, the
\* second one of one byte.
C36_Witness ==
    /\ script.pc = "returned"
    /\ Len(page.buffer) = chunkSize + 1
    /\ script.chunks = <<<<0, chunkSize>>, <<chunkSize, chunkSize + 1>>>>
    /\ Len(script.result) > 0


(* ================= AN IMPORT WHILE PRIVATE TABS ARE OPEN ============== *)
(* The import page (restore.js processFile) stores the backup and sends   *)
(* 'restoreAfterImport'; the background's runtime.onMessage listener      *)
(* (background.js:313-387) receives it. The tabs and the tabs.onUpdated   *)
(* handlers are those of the restore model. Here script is the import     *)
(* page.                                                                  *)

\* The backups imported: one that holds data for one origin or for both,
\* and one of no recognizable shape.
ImportedFiles ==
    { [json |-> "object", version |-> 3, fields |-> {"cookies", "webStorage"},
       webStorage |-> [o \in S |-> EntryOf({"localStorage"}, 1)]] :
         S \in {{"https://a.example"}, Origins} }
    \cup { [json |-> "object", version |-> 0, fields |-> {}, webStorage |-> <<>>] }

\* background.js:313-387: what the listener calls for a message
Listened(action) ==
    IF action \in {"extensionToggled", "settingsChanged"}
    THEN "save_cookies_listener"
    ELSE IF action = "saveOriginData" THEN "saveOriginData"
    ELSE "nothing"

\* restore.js:51-121: the file is read; a recognized payload is stored
ImportStores(file) ==
    /\ script.pc = "chosen"
    /\ IF Recognized(file)
       THEN /\ webStorage' = ImportedWebStorage(file)
            /\ cookies' = 1
            /\ last_saved' = 1
            /\ script' = [script EXCEPT !.pc = "stored"]
       ELSE /\ script' = [script EXCEPT !.pc = "error"]
            /\ UNCHANGED <<webStorage, cookies, last_saved>>
    /\ UNCHANGED <<settingVars, wr, restoreVars, sessionVars, cacheVars, page>>

\* restore.js:124-126: chrome.runtime.sendMessage({action: 'restoreAfterImport'})
ImportNotifies ==
    /\ script.pc = "stored"
    /\ script' = [script EXCEPT !.pc = "sent", !.message = "restoreAfterImport"]
    /\ UNCHANGED <<storeVars, writerVars, restoreVars, sessionVars, cacheVars, page>>

\* background.js:313-387: the listener runs for the message; no branch is
\* for this action, it returns undefined and the sender's promise settles
\* (fulfilled, or rejected when no listener has answered: restore.js:127-130
\* catches that).
BackgroundReceives(outcome) ==
    /\ script.pc = "sent"
    /\ script' = [script EXCEPT !.pc = "notified",
                                !.called = Listened(script.message),
                                !.outcome = outcome]
    /\ UNCHANGED <<storeVars, writerVars, restoreVars, sessionVars, cacheVars, page>>

\* restore.js:132-133: showStatus('Restored ...', 'success')
ImportShowsStatus ==
    /\ script.pc = "notified"
    /\ script' = [script EXCEPT !.pc = "success"]
    /\ UNCHANGED <<storeVars, writerVars, restoreVars, sessionVars, cacheVars, page>>

ImportStep ==
    \/ \E file \in ImportedFiles : ImportStores(file)
    \/ ImportNotifies
    \/ \E outcome \in {"fulfilled", "rejected"} : BackgroundReceives(outcome)
    \/ ImportShowsStatus

NotifyInit ==
    /\ extension_enabled = TRUE
    /\ auto_save = FALSE
    /\ save_cats = Categories
    /\ webStorage \in {<<>>, [o \in {"https://a.example"} |-> EntryOf({"localStorage"}, 0)]}
    /\ NoWriters
    /\ NoSession
    /\ NoSweep
    /\ page = <<>>
    /\ tabOrigin \in [Tabs -> Origins]
    /\ tabReady = [t \in Tabs |-> TRUE]
    /\ upd = [h \in 1..MaxEvents |-> IdleHandler]
    /\ script = [pc |-> "chosen", message |-> "", called |-> "", outcome |-> ""]

NotifyNext ==
    \/ \E file \in ImportedFiles : ImportStores(file)
    \/ ImportNotifies
    \/ \E outcome \in {"fulfilled", "rejected"} : BackgroundReceives(outcome)
    \/ ImportShowsStatus
    \/ \E h \in 1..MaxEvents, t \in Tabs, inc \in BOOLEAN,
          st \in {"loading", "complete"} : TabUpdated(h, t, inc, st)
    \/ \E h \in 1..MaxEvents : UpdReadSettings(h)
    \/ \E h \in 1..MaxEvents : UpdReadStored(h)
    \/ \E h \in 1..MaxEvents : UpdSend1(h)
    \/ \E h \in 1..MaxEvents : UpdRetry(h)
    \/ \E t \in Tabs, o \in Origins \cup {NoUrl} : Navigate(t, o)
    \/ \E t \in Tabs : ContentScriptReady(t)
    \/ \E t \in Tabs : CloseTab(t)

\* Every step that the code has scheduled is taken: the steps of the import
\* page and of the listener, and those of the tabs.onUpdated handlers. That
\* a tab loads, is navigated or closed is up to the user.
SpecNotify ==
    /\ NotifyInit
    /\ [][NotifyNext]_vars
    /\ WF_vars(ImportStep)
    /\ \A h \in 1..MaxEvents : WF_vars(HandlerStep(h))

(* --------------------- claims: import and open tabs -------------------- *)

\* Tab t has been sent the snapshot of its origin in the imported data.
Delivered(t) ==
    \E h \in DOMAIN upd : \E a \in DOMAIN upd[h].attempts :
       /\ upd[h].tabId = t
       /\ upd[h].attempts[a].ok
       /\ upd[h].attempts[a].pageOrigin = tabOrigin[t]
       /\ upd[h].attempts[a].snapshotOf = tabOrigin[t]
       /\ tabOrigin[t] \in DOMAIN webStorage
       /\ upd[h].attempts[a].data = webStorage[tabOrigin[t]]

\* A private tab that stays open at an origin of the imported data.
StaysOpenAt(t, o) ==
    /\ script.pc \in {"notified", "success"}
    /\ o \in DOMAIN webStorage
    /\ [](tabOrigin[t] = o)

\* C37: after a successful import, once the background has been notified,
\* every private tab that is open at an origin of the imported webStorage
\* is eventually sent a setStorageData with that origin's snapshot.
C37_ImportReachesOpenTabs ==
    \A t \in Tabs : \A o \in Origins :
       [](StaysOpenAt(t, o) => <>Delivered(t))


(* -------------------- claims: a refused saveOriginData ----------------- *)

\* C38: a saveOriginData request that arrives while extension_enabled or
\* auto_save is off, or whose data names no origin, is answered with
\* success: false at once, and the stored cookies, webStorage and
\* last_saved are as before.
C38_RefusedLeavesStore ==
    [][\A w \in Writers : \A data \in {<<>>} \cup
                             {[x \in {o} |-> e] : o \in Origins, e \in RawShapes(w)} :
          ( /\ SodReceive(w, data)
            /\ ~extension_enabled \/ ~auto_save \/ DOMAIN data = {} )
          => /\ wr'[w].pc = "done"
             /\ wr'[w].response \in {"disabled", "invalid data"}
             /\ cookies' = cookies
             /\ webStorage' = webStorage
             /\ last_saved' = last_saved]_vars

\* A request without an origin was refused after an earlier request had
\* been saved.
C38_Witness ==
    \E w, v \in Writers :
       /\ wr[w].kind = "saveOriginData"
       /\ wr[w].pc = "done"
       /\ wr[w].response = "invalid data"
       /\ wr[v].kind = "saveOriginData"
       /\ wr[v].response = "success"
       /\ last_saved = v


(* ---------------------- claims: auto-save lifecycle -------------------- *)

\* C39: a start while auto-save is on changes nothing (no listener is
\* registered, no timer is set), and while auto-save is off no capture
\* starts: a timer set before the stop that fires after it starts none.
C39_StartOnceStopHolds ==
    [][ /\ (SettingsChanged(TRUE) /\ script.autoSaveEnabled)
           => script' = script
        /\ ~script.autoSaveEnabled
           => /\ script'.starts = script.starts
              /\ script'.running <= script.running ]_vars

\* Auto-save is off, a timer set before the stop has fired after it and
\* saveCurrentStorage has returned without a capture; no capture has
\* started at all.
C39_Witness ==
    /\ ~script.autoSaveEnabled
    /\ script.returned > 0
    /\ script.starts = <<>>
    /\ script.running = 0


(* ------------------- claims: the sizes of the sweep -------------------- *)

\* The sum of the body lengths of the entries of the caches in the result.
EmittedSum ==
    LET RECURSIVE Sum(_)
        Sum(n) == IF n = 0 THEN 0
                  ELSE BodySum(sweep.caches_data[n].entries) + Sum(n - 1)
    IN Sum(Len(sweep.caches_data))

\* C40: at every point of the sweep totalSize is the sum of the encoded
\* body lengths of the entries of the caches already in the result, each of
\* these caches has the sum of its own entries as its size, and cacheSize
\* is the sum over the entries admitted to the current cache so far; the
\* entries counted are the responses the sweep came to, found and could
\* serialize under the per-entry ceiling, and no other.
C40_SizeAccounting ==
    /\ sweep.totalSize = EmittedSum
    /\ \A n \in DOMAIN sweep.caches_data :
          sweep.caches_data[n].size = BodySum(sweep.caches_data[n].entries)
    /\ sweep.cacheSize = BodySum(sweep.entries)
    /\ \A i \in DOMAIN AllEntries :
          AllEntries[i].bodySize = EncodedSize(EntryAt(AllEntries[i].url))
    /\ Captured \cup InProgress =
          {u \in Requests : EntryAt(u).reached /\ Capturable(EntryAt(u))}
    /\ \A i, j \in DOMAIN AllEntries : i # j => AllEntries[i].url # AllEntries[j].url

\* A cache is in the result and the next one is being read: each has an
\* admitted entry, and an entry was skipped.
C40_Witness ==
    /\ Len(sweep.caches_data) = 1
    /\ sweep.totalSize > 0
    /\ sweep.cacheSize > 0
    /\ sweep.pc = "requests"
    /\ \E u \in Requests : EntryAt(u).reached /\ ~Capturable(EntryAt(u))

====
